---- MODULE Spec2Model ----
(***************************************************************************)
(* A model of the bounded, session-isolated storage engine of              *)
(* realworld_dummy_server.py: normalize_id, InMemoryModel (the bounded     *)
(* entity table), InMemoryLinks (the bounded relationship index) and       *)
(* _StorageContainer (the indexed heap of sessions and get_storage).       *)
(*                                                                         *)
(* Python values are records [type, i, s]; Python lists are sequences and  *)
(* keep Python's 0-based positions through At/SetAt; a dict is a function  *)
(* whose DOMAIN is its key set.  An InMemoryStorage or a caller's record   *)
(* is known by its identity, a number handed out at creation.              *)
(***************************************************************************)
EXTENDS Integers, Sequences, FiniteSets, TLC

VARIABLES
    MAX_ID_LEN,          \* module configuration, src line 71
    max_count,           \* InMemoryModel.max_count
    objects,             \* InMemoryModel.objects: key -> identity of the stored record
    last_accessed_ids,   \* InMemoryModel.last_accessed_ids
    current_id_counter,  \* InMemoryModel.current_id_counter
    id_field,            \* the "id" field of each caller record, by identity
    name_field,          \* the "name" field of each caller record, by identity
    DISABLE_ISOLATION_MODE,  \* _StorageContainer.DISABLE_ISOLATION_MODE
    MAX_SESSIONS,        \* _StorageContainer.MAX_SESSIONS
    heap,                \* _StorageContainer.heap: items [priority, obj_id, data, index]
    index_map,           \* _StorageContainer.index_map: obj_id -> position in heap
    storages_created,    \* how many InMemoryStorage objects were constructed so far
    call,                \* the last completed call: what it was given and what it returned
    touched,             \* history: every id ever touched, least recent first
    access_order,        \* history, kept while clock.increasing: tokens given to get_storage, least recent first
    handed,              \* history: live token -> the storage its creating call returned
    returned,            \* history: every storage some get_storage call returned
    clock,               \* history: the last time_ns reading, and whether readings strictly increased
    duplicate_pushed,    \* history: some _push was given a key that was in the heap
    links_max_count,     \* InMemoryLinks.max_count
    links,               \* InMemoryLinks.links: pairs <<source, target>>, oldest first
    storage,             \* an InMemoryStorage: users, articles, comments, follows, favorites
    bundles,             \* the InMemoryStorage objects in the heap or just returned, by identity
    threads              \* each thread's position in get_storage and the identifier it was given

table_vars == <<MAX_ID_LEN, max_count, objects, last_accessed_ids, current_id_counter,
                id_field, name_field, touched>>

container_vars == <<DISABLE_ISOLATION_MODE, MAX_SESSIONS, heap, index_map, storages_created,
                    access_order, handed, returned, clock, duplicate_pushed, bundles, threads>>

links_vars == <<links_max_count, links>>

vars == <<table_vars, container_vars, links_vars, storage, call>>

(***************************************************************************)
(* Bounds of the model.                                                    *)
(***************************************************************************)
MaxCount == 3        \* table capacities 1..MaxCount
MaxCounter == 4      \* add is tried while current_id_counter <= MaxCounter

MaxSessions == 2     \* session caps 0..MaxSessions
MaxTime == 3         \* time_ns returns 0..MaxTime
MaxStorages == 3     \* get_storage is called while it constructs at most MaxStorages storages
MaxHeap == 3         \* _push is called directly while the heap holds fewer than MaxHeap items
MaxPriority == 2     \* priorities 0..MaxPriority are given to _push and _update_priority
MaxIdLen == 3        \* MAX_ID_LEN is the default or one of 1..MaxIdLen
MaxDigits == 2       \* normalize_id is given the ints -10^MaxDigits..10^MaxDigits
MaxLinks == 3        \* relationship index capacities -1..MaxLinks
MaxComments == 2     \* the comments table of a bundle assigns ids 1..MaxComments
MaxFreshHeap == 4    \* _push is called with new keys while the heap holds fewer than MaxFreshHeap items

DefaultMaxIdLen == 64

\* the MAX_ID_LEN that test_max_id_length_exceeded runs a table under
LowMaxIdLen == 1

(***************************************************************************)
(* Python values.                                                          *)
(***************************************************************************)
PyInt(n) == [type |-> "int", i |-> n, s |-> ""]
PyStr(x) == [type |-> "str", i |-> 0, s |-> x]
PyBool(b) == [type |-> "bool", i |-> IF b THEN 1 ELSE 0, s |-> ""]
PyFloat(n) == [type |-> "float", i |-> n, s |-> ""]
PyNone == [type |-> "NoneType", i |-> 0, s |-> ""]
PyList == [type |-> "list", i |-> 0, s |-> ""]
PyDict(ref) == [type |-> "dict", i |-> ref, s |-> ""]

\* obj.get("id") of a record that has no "id" key yet
NoId == "<no id>"

Digit == <<"0", "1", "2", "3", "4", "5", "6", "7", "8", "9">>

RECURSIVE StrNat(_)
StrNat(n) == IF n < 10 THEN Digit[n + 1] ELSE StrNat(n \div 10) \o Digit[(n % 10) + 1]

\* Python's str(n) of an int
str(n) == IF n < 0 THEN "-" \o StrNat(-n) ELSE StrNat(n)

\* the value normalize_id tests the length of: an int is converted first
IdText(value) == IF value.type = "int" THEN str(value.i) ELSE value.s

\* isinstance(value, int) where the code tests type(value) == int: a bool passes
normalize_id_raises_isinstance(value) ==
    IF value.type \in {"int", "bool", "str"} THEN Len(IdText(value)) > MAX_ID_LEN ELSE TRUE

\* len(value) >= MAX_ID_LEN where the code tests len(value) > MAX_ID_LEN
normalize_id_raises_at_bound(value) ==
    IF value.type \in {"int", "str"} THEN Len(IdText(value)) >= MAX_ID_LEN ELSE TRUE

normalize_id_raises(value) ==
    IF value.type \in {"int", "str"} THEN Len(IdText(value)) > MAX_ID_LEN ELSE TRUE

normalize_id(value) == IdText(value)

(***************************************************************************)
(* Lists and dicts.                                                        *)
(***************************************************************************)
At(list, i) == list[i + 1]

SetAt(list, i, v) == [list EXCEPT ![i + 1] = v]

\* d[k] = v
DictSet(d, k, v) == [x \in DOMAIN d \cup {k} |-> IF x = k THEN v ELSE d[x]]

\* del d[k]
DictDel(d, k) == [x \in DOMAIN d \ {k} |-> d[x]]

EmptyDict == [x \in {} |-> 0]

\* [e for e in list if e != x]
Without(list, x) == SelectSeq(list, LAMBDA e : e # x)

Elements(list) == {list[n] : n \in 1..Len(list)}

\* list.index(x), for x in list
IndexOf(list, x) == (CHOOSE n \in 1..Len(list) : list[n] = x /\ \A k \in 1..(n - 1) : list[k] # x) - 1

\* [*list[:i], *list[i+1:]]
RemoveAt(list, i) == SubSeq(list, 1, i) \o SubSeq(list, i + 2, Len(list))

\* list[1:]
AllButFirst(list) == SubSeq(list, 2, Len(list))

(***************************************************************************)
(* InMemoryModel.                                                          *)
(***************************************************************************)
\* len(...) >= MAX_ID_LEN where the code tests len(...) > MAX_ID_LEN
AddRaisesAtBound == Len(str(current_id_counter)) >= MAX_ID_LEN

AddRaises == Len(str(current_id_counter)) > MAX_ID_LEN

\* add that stores and never evicts
AddObjectsNoEviction(obj) == DictSet(objects, str(current_id_counter), obj)

\* an eviction that deletes the most recently touched key
AddObjectsEvictsNewest(obj) ==
    LET key == str(current_id_counter)
        stored == DictSet(objects, key, obj)
    IN  IF Cardinality(DOMAIN stored) > max_count
        THEN DictDel(stored, At(last_accessed_ids, Len(last_accessed_ids) - 1))
        ELSE stored

\* objects after the store and the eviction of add
AddObjects(obj) ==
    LET key == str(current_id_counter)
        stored == DictSet(objects, key, obj)
    IN  IF Cardinality(DOMAIN stored) > max_count
        THEN DictDel(stored, At(last_accessed_ids, 0))
        ELSE stored

\* an add that keeps the evicted key in the order
AddOrderKeepsHead(obj) == Append(last_accessed_ids, str(current_id_counter))

\* last_accessed_ids after add
AddOrder(obj) ==
    LET key == str(current_id_counter)
        stored == DictSet(objects, key, obj)
    IN  IF Cardinality(DOMAIN stored) > max_count
        THEN SubSeq(last_accessed_ids, 2, Len(last_accessed_ids)) \o <<key>>
        ELSE Append(last_accessed_ids, key)

\* a counter recomputed from the size of the table
AddCounterFromSize == Cardinality(DOMAIN objects) + 2

\* current_id_counter after a successful add
AddCounter == current_id_counter + 1

\* a get that does not count as a touch
GetOrderUntouched(_id) == last_accessed_ids

\* last_accessed_ids after a get that found _id
GetOrder(_id) == Append(Without(last_accessed_ids, _id), _id)

\* a delete that leaves the recency order alone
DeleteOrderKept(_id) == last_accessed_ids

\* last_accessed_ids after a delete that found _id
DeleteOrder(_id) == Without(last_accessed_ids, _id)

\* the counter is capped at MaxCounter unless MAX_ID_LEN stops it first
\* a get that hands out a copy: a dict with another identity
GetReturnCopy(_id) == objects[_id] + Cardinality(DOMAIN id_field)

\* the dict get returns for a stored key
GetReturn(_id) == objects[_id]

Add(obj) ==
    /\ current_id_counter <= MaxCounter \/ MAX_ID_LEN = LowMaxIdLen
    /\ IF AddRaises
       THEN /\ call' = [op |-> "add", arg |-> PyDict(obj), raised |-> TRUE, ret |-> PyNone]
            /\ UNCHANGED <<objects, last_accessed_ids, current_id_counter, id_field, touched>>
       ELSE /\ objects' = AddObjects(obj)
            /\ id_field' = [id_field EXCEPT ![obj] = str(current_id_counter)]
            /\ current_id_counter' = AddCounter
            /\ last_accessed_ids' = AddOrder(obj)
            /\ touched' = Append(touched, str(current_id_counter))
            /\ call' = [op |-> "add", arg |-> PyDict(obj), raised |-> FALSE, ret |-> PyDict(obj)]
    /\ UNCHANGED <<MAX_ID_LEN, max_count, name_field, container_vars, links_vars, storage>>

Get(value) ==
    /\ IF normalize_id_raises(value)
       THEN /\ call' = [op |-> "get", arg |-> value, raised |-> TRUE, ret |-> PyNone]
            /\ UNCHANGED <<last_accessed_ids, touched>>
       ELSE LET _id == normalize_id(value)
            IN  IF _id \notin DOMAIN objects
                THEN /\ call' = [op |-> "get", arg |-> value, raised |-> FALSE, ret |-> PyNone]
                     /\ UNCHANGED <<last_accessed_ids, touched>>
                ELSE /\ last_accessed_ids' = GetOrder(_id)
                     /\ touched' = Append(Without(touched, _id), _id)
                     /\ call' = [op |-> "get", arg |-> value, raised |-> FALSE,
                                 ret |-> PyDict(GetReturn(_id))]
    /\ UNCHANGED <<MAX_ID_LEN, max_count, objects, current_id_counter, id_field, name_field, container_vars, links_vars, storage>>

\* a delete that takes every key for a stored one
DeleteFindsAlways(_id) == TRUE

\* whether delete finds the key
DeleteFinds(_id) == _id \in DOMAIN objects

Delete(value) ==
    /\ IF normalize_id_raises(value)
       THEN /\ call' = [op |-> "delete", arg |-> value, raised |-> TRUE, ret |-> PyNone]
            /\ UNCHANGED <<objects, last_accessed_ids, touched>>
       ELSE LET _id == normalize_id(value)
            IN  IF DeleteFinds(_id)
                THEN /\ objects' = DictDel(objects, _id)
                     /\ last_accessed_ids' = DeleteOrder(_id)
                     /\ touched' = Without(touched, _id)
                     /\ call' = [op |-> "delete", arg |-> value, raised |-> FALSE,
                                 ret |-> PyBool(TRUE)]
                ELSE /\ call' = [op |-> "delete", arg |-> value, raised |-> FALSE,
                                 ret |-> PyBool(FALSE)]
                     /\ UNCHANGED <<objects, last_accessed_ids, touched>>
    /\ UNCHANGED <<MAX_ID_LEN, max_count, current_id_counter, id_field, name_field, container_vars, links_vars, storage>>

\* keys(), values() and items(): each returns a view of the dictionary
Views == {"keys", "values", "items"}

Iterate(method) ==
    /\ call' = [op |-> method, arg |-> PyNone, raised |-> FALSE,
                ret |-> [type |-> "dict_" \o method, i |-> 0, s |-> ""]]
    /\ UNCHANGED <<table_vars, container_vars, links_vars, storage>>

\* a constructor that rejects negative capacities only
InMemoryModelRaisesOnNegative(m) == m < 0

\* InMemoryModel(m) raises ValueError("invalid value for max_count")
InMemoryModelRaises(m) == m <= 0

\* model = InMemoryModel(m): when __init__ raises, the name is not bound and the table
\* the caller had, if any, stays; otherwise the caller works on the new table
Construct(m) ==
    /\ IF InMemoryModelRaises(m)
       THEN /\ call' = [op |-> "InMemoryModel", arg |-> PyInt(m), raised |-> TRUE, ret |-> PyNone]
            /\ UNCHANGED <<max_count, objects, last_accessed_ids, current_id_counter, touched>>
       ELSE /\ max_count' = m
            /\ objects' = EmptyDict
            /\ last_accessed_ids' = <<>>
            /\ current_id_counter' = 1
            /\ touched' = <<>>
            /\ call' = [op |-> "InMemoryModel", arg |-> PyInt(m), raised |-> FALSE, ret |-> PyNone]
    /\ UNCHANGED <<MAX_ID_LEN, id_field, name_field, container_vars, links_vars, storage>>

\* the caller writes a field of a record it holds: obj["name"] = "modified"
SetName(obj) ==
    /\ name_field' = [name_field EXCEPT ![obj] = "modified"]
    /\ call' = [op |-> "set_name", arg |-> PyDict(obj), raised |-> FALSE, ret |-> PyNone]
    /\ UNCHANGED <<MAX_ID_LEN, max_count, objects, last_accessed_ids, current_id_counter,
                   id_field, touched, container_vars, links_vars, storage>>

(***************************************************************************)
(* InMemoryLinks.  A links value is the list self.links; add and remove    *)
(* are the functions from the list they find to the list they leave.       *)
(***************************************************************************)
\* (source, target) after both went through normalize_id
LinkOf(source, target) == <<normalize_id(source), normalize_id(target)>>

\* an add that appends without looking for the pair
links_add_no_dedup(list, m, pair) ==
    IF m = 0
    THEN list
    ELSE IF Len(list) >= m
         THEN Append(AllButFirst(list), pair)
         ELSE Append(list, pair)

\* an add that drops the newest pair of a full index
links_add_drops_newest(list, m, pair) ==
    IF m = 0
    THEN list
    ELSE IF pair \in Elements(list)
         THEN Append(RemoveAt(list, IndexOf(list, pair)), pair)
         ELSE IF Len(list) >= m
              THEN Append(SubSeq(list, 1, Len(list) - 1), pair)
              ELSE Append(list, pair)

\* an add without the test for a capacity of 0
links_add_no_zero_test(list, m, pair) ==
    IF pair \in Elements(list)
    THEN Append(RemoveAt(list, IndexOf(list, pair)), pair)
    ELSE IF Len(list) >= m
         THEN Append(AllButFirst(list), pair)
         ELSE Append(list, pair)

\* the list add leaves, given identifiers that normalize_id accepts
links_add(list, m, pair) ==
    IF m = 0
    THEN list
    ELSE IF pair \in Elements(list)
         THEN Append(RemoveAt(list, IndexOf(list, pair)), pair)
         ELSE IF Len(list) >= m
              THEN Append(AllButFirst(list), pair)
              ELSE Append(list, pair)

\* a remove that takes the pair in either direction
links_remove_either_direction(list, pair) ==
    SelectSeq(list, LAMBDA l : l # pair /\ l # <<pair[2], pair[1]>>)

\* the list remove leaves
links_remove(list, pair) ==
    IF pair \in Elements(list) THEN RemoveAt(list, IndexOf(list, pair)) ELSE list

\* a completed call; present: the pair was stored when add or remove was called;
\* before: len(self.links) when the call began
LinksCall(op, source, target, raised) ==
    [op |-> op, arg |-> source, target |-> target, raised |-> raised, ret |-> PyNone,
     present |-> IF raised \/ op \notin {"links.add", "links.remove"}
                 THEN FALSE
                 ELSE LinkOf(source, target) \in Elements(links),
     before |-> Len(links)]

LinksAdd(source, target) ==
    /\ IF normalize_id_raises(source) \/ normalize_id_raises(target)
       THEN /\ call' = LinksCall("links.add", source, target, TRUE)
            /\ UNCHANGED links
       ELSE /\ links' = links_add(links, links_max_count, LinkOf(source, target))
            /\ call' = LinksCall("links.add", source, target, FALSE)
    /\ UNCHANGED <<links_max_count, table_vars, container_vars, storage>>

LinksRemove(source, target) ==
    /\ IF normalize_id_raises(source) \/ normalize_id_raises(target)
       THEN /\ call' = LinksCall("links.remove", source, target, TRUE)
            /\ UNCHANGED links
       ELSE /\ links' = links_remove(links, LinkOf(source, target))
            /\ call' = LinksCall("links.remove", source, target, FALSE)
    /\ UNCHANGED <<links_max_count, table_vars, container_vars, storage>>

\* a delete_target that compares the sources
links_delete_target_by_source(list, target_to_delete) ==
    SelectSeq(list, LAMBDA l : l[1] # target_to_delete)

\* a delete_target that stops at the first pair it removes
links_delete_target_first_match(list, target_to_delete) ==
    IF \E n \in 1..Len(list) : list[n][2] = target_to_delete
    THEN RemoveAt(list, (CHOOSE n \in 1..Len(list) :
                            /\ list[n][2] = target_to_delete
                            /\ \A k \in 1..(n - 1) : list[k][2] # target_to_delete) - 1)
    ELSE list

\* the list delete_target leaves
links_delete_target(list, target_to_delete) ==
    SelectSeq(list, LAMBDA l : l[2] # target_to_delete)

\* normalize_id is called inside the comprehension, once per stored pair: on an
\* empty list it is never called, and a malformed identifier raises only otherwise
LinksDeleteSource(source_to_delete) ==
    /\ IF links # <<>> /\ normalize_id_raises(source_to_delete)
       THEN /\ call' = LinksCall("links.delete_source", source_to_delete, PyNone, TRUE)
            /\ UNCHANGED links
       ELSE /\ links' = IF links = <<>>
                        THEN links
                        ELSE SelectSeq(links, LAMBDA l : l[1] # normalize_id(source_to_delete))
            /\ call' = LinksCall("links.delete_source", source_to_delete, PyNone, FALSE)
    /\ UNCHANGED <<links_max_count, table_vars, container_vars, storage>>

LinksDeleteTarget(target_to_delete) ==
    /\ IF links # <<>> /\ normalize_id_raises(target_to_delete)
       THEN /\ call' = LinksCall("links.delete_target", PyNone, target_to_delete, TRUE)
            /\ UNCHANGED links
       ELSE /\ links' = IF links = <<>>
                        THEN links
                        ELSE links_delete_target(links, normalize_id(target_to_delete))
            /\ call' = LinksCall("links.delete_target", PyNone, target_to_delete, FALSE)
    /\ UNCHANGED <<links_max_count, table_vars, container_vars, storage>>

\* a Python list of keys, as targets_for_source and sources_for_target return it
PyListOf(items) == [type |-> "list", i |-> 0, s |-> "", items |-> items]

\* [x[k] for x in list]
Column(list, k) == [n \in 1..Len(list) |-> list[n][k]]

LinksIsLinked(source, target) ==
    /\ IF normalize_id_raises(source) \/ normalize_id_raises(target)
       THEN call' = LinksCall("links.is_linked", source, target, TRUE)
       ELSE call' = [LinksCall("links.is_linked", source, target, FALSE)
                        EXCEPT !.ret = PyBool(LinkOf(source, target) \in Elements(links))]
    /\ UNCHANGED <<links_vars, table_vars, container_vars, storage>>

\* a targets_for_source that follows the pairs in both directions
targets_for_source_either_side(list, wanted_source) ==
    Column(SelectSeq(list, LAMBDA l : l[1] = wanted_source), 2)
        \o Column(SelectSeq(list, LAMBDA l : l[2] = wanted_source /\ l[1] # wanted_source), 1)

\* the list targets_for_source builds
targets_for_source(list, wanted_source) ==
    Column(SelectSeq(list, LAMBDA l : l[1] = wanted_source), 2)

\* normalize_id is called in the condition of the comprehension, once per stored pair
LinksTargetsForSource(wanted_source) ==
    /\ IF links # <<>> /\ normalize_id_raises(wanted_source)
       THEN call' = LinksCall("links.targets_for_source", wanted_source, PyNone, TRUE)
       ELSE call' = [LinksCall("links.targets_for_source", wanted_source, PyNone, FALSE)
                        EXCEPT !.ret =
                            IF links = <<>>
                            THEN PyListOf(<<>>)
                            ELSE PyListOf(targets_for_source(links,
                                                             normalize_id(wanted_source)))]
    /\ UNCHANGED <<links_vars, table_vars, container_vars, storage>>

LinksSourcesForTarget(wanted_target) ==
    /\ IF links # <<>> /\ normalize_id_raises(wanted_target)
       THEN call' = LinksCall("links.sources_for_target", PyNone, wanted_target, TRUE)
       ELSE call' = [LinksCall("links.sources_for_target", PyNone, wanted_target, FALSE)
                        EXCEPT !.ret =
                            IF links = <<>>
                            THEN PyListOf(<<>>)
                            ELSE PyListOf(Column(SelectSeq(links,
                                     LAMBDA l : l[2] = normalize_id(wanted_target)), 1))]
    /\ UNCHANGED <<links_vars, table_vars, container_vars, storage>>

(***************************************************************************)
(* InMemoryStorage: the bundle of three tables and two indexes, and the    *)
(* request handlers that work on it.  A table is the record [max_count,    *)
(* objects, last_accessed_ids, current_id_counter]; the handlers build a   *)
(* new dict for every record, so a table maps a key to the record's fields.*)
(* Every id a handler passes to a table or an index is a key some table    *)
(* assigned: a str that normalize_id returns as it is.                     *)
(***************************************************************************)
Usernames == {"u1", "u2"}

\* a title is the sequence of its characters; the two have the same slug
Titles == {<<"A", " ", "b">>, <<"a", "!", "-", "-", "b", " ">>}

\* MAX_*_PER_SESSION: every table and index of the bundle holds as many entries as
\* there are users
BundleCapacity == Cardinality(Usernames)

\* the articles table assigns one id per title
MaxArticles == Cardinality(Titles)

InMemoryModel(m) ==
    [max_count |-> m, objects |-> EmptyDict, last_accessed_ids |-> <<>>, current_id_counter |-> 1]

InMemoryStorage ==
    [users |-> InMemoryModel(BundleCapacity),
     articles |-> InMemoryModel(BundleCapacity),
     comments |-> InMemoryModel(BundleCapacity),
     follows |-> <<>>,
     favorites |-> <<>>]

\* model.add(obj) raises
ModelAddRaises(model) == Len(str(model.current_id_counter)) > MAX_ID_LEN

\* model after model.add(obj)
ModelAdd(model, obj) ==
    LET key == str(model.current_id_counter)
        stored == DictSet(model.objects, key, [obj EXCEPT !.id = key])
    IN  IF Cardinality(DOMAIN stored) > model.max_count
        THEN [model EXCEPT !.objects = DictDel(stored, At(model.last_accessed_ids, 0)),
                           !.current_id_counter = @ + 1,
                           !.last_accessed_ids = AllButFirst(@) \o <<key>>]
        ELSE [model EXCEPT !.objects = stored,
                           !.current_id_counter = @ + 1,
                           !.last_accessed_ids = Append(@, key)]

\* model after model.get(_id)
ModelGet(model, _id) ==
    IF _id \in DOMAIN model.objects
    THEN [model EXCEPT !.last_accessed_ids = Append(Without(@, _id), _id)]
    ELSE model

\* model after model.delete(_id)
ModelDelete(model, _id) ==
    IF _id \in DOMAIN model.objects
    THEN [model EXCEPT !.objects = DictDel(@, _id), !.last_accessed_ids = Without(@, _id)]
    ELSE model

\* model after model.delete(c_id) for every c_id of ids
RECURSIVE ModelDeleteEach(_, _)
ModelDeleteEach(model, ids) ==
    IF ids = {}
    THEN model
    ELSE LET c_id == CHOOSE i \in ids : TRUE
         IN  ModelDeleteEach(ModelDelete(model, c_id), ids \ {c_id})

\* str.lower() of one character
Lower(ch) == IF ch = "A" THEN "a" ELSE IF ch = "B" THEN "b" ELSE ch

\* the characters the pattern [\w\s-] matches, among the characters of Titles
SlugChars == {"a", "b", "1", " ", "-"}

RECURSIVE DropSeparators(_)
DropSeparators(chars) ==
    IF chars # <<>> /\ Head(chars) \in {" ", "-"} THEN DropSeparators(Tail(chars)) ELSE chars

\* re.sub(r"[-\s]+", "-", ...)
RECURSIVE Hyphenate(_)
Hyphenate(chars) ==
    IF chars = <<>>
    THEN <<>>
    ELSE IF Head(chars) \in {" ", "-"}
         THEN <<"-">> \o Hyphenate(DropSeparators(chars))
         ELSE <<Head(chars)>> \o Hyphenate(Tail(chars))

\* str.strip("-") after Hyphenate: at most one hyphen at each end
Strip(chars) ==
    LET first == IF chars # <<>> /\ chars[1] = "-" THEN 2 ELSE 1
        last == IF chars # <<>> /\ chars[Len(chars)] = "-" THEN Len(chars) - 1 ELSE Len(chars)
    IN  SubSeq(chars, first, last)

RECURSIVE Join(_)
Join(chars) == IF chars = <<>> THEN "" ELSE Head(chars) \o Join(Tail(chars))

\* generate_slug(title), a title being the sequence of its characters
generate_slug(title) ==
    LET lowered == [n \in 1..Len(title) |-> Lower(title[n])]
        kept == SelectSeq(lowered, LAMBDA ch : ch \in SlugChars)
    IN  Join(Strip(Hyphenate(kept)))

\* the key of the article get_article_by_slug finds, NoId when it finds none; the
\* slugs of stored articles are distinct
get_article_by_slug(slug) ==
    LET found == {k \in DOMAIN storage.articles.objects : storage.articles.objects[k].slug = slug}
    IN  IF found = {} THEN NoId ELSE CHOOSE k \in found : TRUE

\* the key of the user get_user_by_username finds, NoId when it finds none
get_user_by_username(username) ==
    LET found == {k \in DOMAIN storage.users.objects : storage.users.objects[k].username = username}
    IN  IF found = {} THEN NoId ELSE CHOOSE k \in found : TRUE

RECURSIVE UniqueSlug(_, _, _)
UniqueSlug(base_slug, slug, counter) ==
    IF get_article_by_slug(slug) # NoId
    THEN UniqueSlug(base_slug, base_slug \o "-" \o str(counter), counter + 1)
    ELSE slug

_helper_article_get_slug(title) == UniqueSlug(generate_slug(title), generate_slug(title), 1)

\* current_user_id of a request without a valid token
NoUser == "<no user>"

\* a completed request: the handler and the status it answered with
HandlerCall(op, status) == [op |-> op, status |-> status]

\* the users table after create_article_response or create_comment_response looked
\* the author up
AuthorRead(author_id) == ModelGet(storage.users, author_id)

_handle_register(username) ==
    /\ storage.users.current_id_counter <= BundleCapacity
    /\ IF get_user_by_username(username) # NoId
       THEN /\ call' = HandlerCall("register", 409)
            /\ UNCHANGED storage
       ELSE /\ ~ModelAddRaises(storage.users)
            /\ storage' = [storage EXCEPT
                    !.users = ModelAdd(@, [id |-> NoId, username |-> username])]
            /\ call' = HandlerCall("register", 201)
    /\ UNCHANGED <<table_vars, container_vars, links_vars>>

_handle_follow_user(username, current_user_id) ==
    /\ LET target_user == get_user_by_username(username)
       IN  IF current_user_id = NoUser
           THEN /\ call' = HandlerCall("follow_user", 401)
                /\ UNCHANGED storage
           ELSE IF target_user = NoId
                THEN /\ call' = HandlerCall("follow_user", 404)
                     /\ UNCHANGED storage
                ELSE IF target_user = current_user_id
                     THEN /\ call' = HandlerCall("follow_user", 422)
                          /\ UNCHANGED storage
                     ELSE /\ storage' = [storage EXCEPT !.follows =
                                 links_add(@, BundleCapacity, <<current_user_id, target_user>>)]
                          /\ call' = HandlerCall("follow_user", 200)
    /\ UNCHANGED <<table_vars, container_vars, links_vars>>

\* an articles.add whose eviction takes the comments and favorites of the evicted
\* article with it, as the deletion of an article does
ArticleAddedCascading(st, article) ==
    LET added == ModelAdd(st.articles, article)
        gone == DOMAIN st.articles.objects \ DOMAIN added.objects
    IN  [st EXCEPT !.articles = added,
                   !.favorites = SelectSeq(@, LAMBDA l : l[2] \notin gone),
                   !.comments = ModelDeleteEach(@, {c_id \in DOMAIN st.comments.objects :
                                    st.comments.objects[c_id].article_id \in gone})]

\* the bundle after storage.articles.add(article)
ArticleAdded(st, article) == [st EXCEPT !.articles = ModelAdd(@, article)]

_handle_create_article(title, current_user_id) ==
    /\ storage.articles.current_id_counter <= MaxArticles
    /\ IF current_user_id = NoUser
       THEN /\ call' = HandlerCall("create_article", 401)
            /\ UNCHANGED storage
       ELSE LET slug == _helper_article_get_slug(title)
                article == [id |-> NoId, slug |-> slug, author_id |-> current_user_id]
            IN  /\ ~ModelAddRaises(storage.articles)
                /\ storage' = [ArticleAdded(storage, article) EXCEPT
                                   !.users = AuthorRead(current_user_id)]
                /\ call' = HandlerCall("create_article", 201)
    /\ UNCHANGED <<table_vars, container_vars, links_vars>>

\* create_article_response fails on an author the users table has evicted, after the
\* pair was added: the request ends with status 500
_handle_favorite_article(slug, current_user_id) ==
    /\ LET article_id == get_article_by_slug(slug)
       IN  IF current_user_id = NoUser
           THEN /\ call' = HandlerCall("favorite_article", 401)
                /\ UNCHANGED storage
           ELSE IF article_id = NoId
                THEN /\ call' = HandlerCall("favorite_article", 404)
                     /\ UNCHANGED storage
                ELSE LET author_id == storage.articles.objects[article_id].author_id
                     IN  /\ storage' = [storage EXCEPT
                                !.favorites = links_add(@, BundleCapacity,
                                                        <<current_user_id, article_id>>),
                                !.users = AuthorRead(author_id)]
                         /\ call' = HandlerCall("favorite_article",
                                        IF author_id \in DOMAIN storage.users.objects
                                        THEN 200 ELSE 500)
    /\ UNCHANGED <<table_vars, container_vars, links_vars>>

_handle_create_comment(slug, current_user_id) ==
    /\ storage.comments.current_id_counter <= MaxComments
    /\ LET article_id == get_article_by_slug(slug)
       IN  IF current_user_id = NoUser
           THEN /\ call' = HandlerCall("create_comment", 401)
                /\ UNCHANGED storage
           ELSE IF article_id = NoId
                THEN /\ call' = HandlerCall("create_comment", 404)
                     /\ UNCHANGED storage
                ELSE LET comment == [id |-> NoId, article_id |-> article_id,
                                     author_id |-> current_user_id]
                     IN  /\ ~ModelAddRaises(storage.comments)
                         /\ storage' = [storage EXCEPT !.comments = ModelAdd(@, comment),
                                                       !.users = AuthorRead(current_user_id)]
                         /\ call' = HandlerCall("create_comment", 200)
    /\ UNCHANGED <<table_vars, container_vars, links_vars>>

\* the keys of the comments the handler collects in comments_to_delete
CommentsOf(article_id) ==
    {c_id \in DOMAIN storage.comments.objects :
        storage.comments.objects[c_id].article_id = article_id}

\* a completed delete; cascaded: the deleted article had a comment and was a favorite
DeleteCall(current_user_id, slug, status, article_id) ==
    [op |-> "delete_article", status |-> status,
     user |-> IF status = 204 THEN current_user_id ELSE NoUser,
     article_id |-> article_id,
     cascaded |-> /\ status = 204
                  /\ CommentsOf(article_id) # {}
                  /\ \E l \in Elements(storage.favorites) : l[2] = article_id]

_handle_delete_article(slug, current_user_id) ==
    /\ LET article_id == get_article_by_slug(slug)
       IN  IF current_user_id = NoUser
           THEN /\ call' = DeleteCall(current_user_id, slug, 401, NoId)
                /\ UNCHANGED storage
           ELSE IF article_id = NoId
                THEN /\ call' = DeleteCall(current_user_id, slug, 404, NoId)
                     /\ UNCHANGED storage
                ELSE IF storage.articles.objects[article_id].author_id # current_user_id
                     THEN /\ call' = DeleteCall(current_user_id, slug, 403, NoId)
                          /\ UNCHANGED storage
                     ELSE /\ storage' = [storage EXCEPT
                                 !.articles = ModelDelete(@, article_id),
                                 !.favorites = links_delete_target(@, article_id),
                                 !.comments = ModelDeleteEach(@, CommentsOf(article_id))]
                          /\ call' = DeleteCall(current_user_id, slug, 204, article_id)
    /\ UNCHANGED <<table_vars, container_vars, links_vars>>

\* the profile that follow requests name
Followed == {"u2"}

\* verify_token returns the key of a stored user, or None
CurrentUsers == DOMAIN storage.users.objects \cup {NoUser}

\* outside the handlers' specification the bundle stays as constructed
BundleInit == storage = InMemoryStorage

(***************************************************************************)
(* _StorageContainer: the indexed heap.  A container value c is            *)
(* [heap, index_map]; every method is the function from the container it  *)
(* finds to the container it leaves.                                       *)
(***************************************************************************)
Item(priority, obj_id, data, index) ==
    [priority |-> priority, obj_id |-> obj_id, data |-> data, index |-> index]

\* Python's None where an item is expected (_pop on an empty heap)
NoItem == Item(0, "<None>", 0, -1)

\* data=None, the default of _push
NoData == 0

\* a swap that moves the items and leaves index_map as it was
_swap_items_only(c, i, j) ==
    LET moved_i == [At(c.heap, i) EXCEPT !.index = j]
        moved_j == [At(c.heap, j) EXCEPT !.index = i]
    IN  [heap |-> SetAt(SetAt(c.heap, i, moved_j), j, moved_i), index_map |-> c.index_map]

_swap(c, i, j) ==
    LET ki == At(c.heap, i).obj_id
        kj == At(c.heap, j).obj_id
        moved_i == [At(c.heap, i) EXCEPT !.index = j]
        moved_j == [At(c.heap, j) EXCEPT !.index = i]
    IN  [heap |-> SetAt(SetAt(c.heap, i, moved_j), j, moved_i),
         index_map |-> DictSet(DictSet(c.index_map, ki, j), kj, i)]

\* a sift-up that tests once (if) where the code loops (while)
_sift_up_one_level(c, index) ==
    IF index > 0
    THEN LET parent_index == (index - 1) \div 2
         IN  IF At(c.heap, index).priority >= At(c.heap, parent_index).priority
             THEN c
             ELSE _swap(c, index, parent_index)
    ELSE c

RECURSIVE _sift_up(_, _)
_sift_up(c, index) ==
    IF index > 0
    THEN LET parent_index == (index - 1) \div 2
         IN  IF At(c.heap, index).priority >= At(c.heap, parent_index).priority
             THEN c
             ELSE _sift_up(_swap(c, index, parent_index), parent_index)
    ELSE c

\* a sift-down that compares with the left child only
RECURSIVE _sift_down_left_only(_, _)
_sift_down_left_only(c, index) ==
    LET left_child == 2 * index + 1
        smallest ==
            IF left_child < Len(c.heap)
                /\ At(c.heap, left_child).priority < At(c.heap, index).priority
            THEN left_child
            ELSE index
    IN  IF smallest = index THEN c ELSE _sift_down_left_only(_swap(c, index, smallest), smallest)

RECURSIVE _sift_down(_, _)
_sift_down(c, index) ==
    LET left_child == 2 * index + 1
        right_child == 2 * index + 2
        after_left ==
            IF left_child < Len(c.heap)
                /\ At(c.heap, left_child).priority < At(c.heap, index).priority
            THEN left_child
            ELSE index
        smallest ==
            IF right_child < Len(c.heap)
                /\ At(c.heap, right_child).priority < At(c.heap, after_left).priority
            THEN right_child
            ELSE after_left
    IN  IF smallest = index THEN c ELSE _sift_down(_swap(c, index, smallest), smallest)

_push(c, priority, obj_id, data) ==
    LET index == Len(c.heap)
    IN  _sift_up([heap |-> Append(c.heap, Item(priority, obj_id, data, index)),
                  index_map |-> DictSet(c.index_map, obj_id, index)],
                 index)

\* del self.index_map[root_item[1]] raises KeyError when the root's key is not mapped
_pop_raises(c) == c.heap # <<>> /\ At(c.heap, 0).obj_id \notin DOMAIN c.index_map

\* the item _pop returns
_pop_item(c) == IF c.heap = <<>> THEN NoItem ELSE At(c.heap, 0)

\* a pop that moves the last item to the root and does not record its new position
_pop_stale_index(c) ==
    IF c.heap = <<>>
    THEN c
    ELSE LET unmapped == DictDel(c.index_map, At(c.heap, 0).obj_id)
         IN  IF Len(c.heap) = 1
             THEN [heap |-> <<>>, index_map |-> unmapped]
             ELSE LET last_item == At(c.heap, Len(c.heap) - 1)
                      popped == SubSeq(c.heap, 1, Len(c.heap) - 1)
                  IN  _sift_down([heap |-> SetAt(popped, 0, [last_item EXCEPT !.index = 0]),
                                  index_map |-> unmapped],
                                 0)

\* the container _pop leaves
_pop(c) ==
    IF c.heap = <<>>
    THEN c
    ELSE LET unmapped == DictDel(c.index_map, At(c.heap, 0).obj_id)
         IN  IF Len(c.heap) = 1
             THEN [heap |-> <<>>, index_map |-> unmapped]
             ELSE LET last_item == At(c.heap, Len(c.heap) - 1)
                      popped == SubSeq(c.heap, 1, Len(c.heap) - 1)
                  IN  _sift_down([heap |-> SetAt(popped, 0, [last_item EXCEPT !.index = 0]),
                                  index_map |-> DictSet(unmapped, last_item.obj_id, 0)],
                                 0)

_update_priority_raises(c, obj_id) == obj_id \notin DOMAIN c.index_map

\* an update that sifts up on a decrease and forgets to sift down on an increase
_update_priority_up_only(c, obj_id, new_priority) ==
    LET index == c.index_map[obj_id]
        old_priority == At(c.heap, index).priority
        updated == [c EXCEPT !.heap = SetAt(c.heap, index,
                                            [At(c.heap, index) EXCEPT !.priority = new_priority])]
    IN  IF new_priority < old_priority THEN _sift_up(updated, index) ELSE updated

\* a sift-down that also swaps with a child of equal priority
RECURSIVE _sift_down_on_equal(_, _)
_sift_down_on_equal(c, index) ==
    LET left_child == 2 * index + 1
        right_child == 2 * index + 2
        after_left ==
            IF left_child < Len(c.heap)
                /\ At(c.heap, left_child).priority <= At(c.heap, index).priority
            THEN left_child
            ELSE index
        smallest ==
            IF right_child < Len(c.heap)
                /\ At(c.heap, right_child).priority < At(c.heap, after_left).priority
            THEN right_child
            ELSE after_left
    IN  IF smallest = index THEN c ELSE _sift_down_on_equal(_swap(c, index, smallest), smallest)

\* an update that restructures whenever the priority did not decrease
_update_priority_down_on_equal(c, obj_id, new_priority) ==
    LET index == c.index_map[obj_id]
        old_priority == At(c.heap, index).priority
        updated == [c EXCEPT !.heap = SetAt(c.heap, index,
                                            [At(c.heap, index) EXCEPT !.priority = new_priority])]
    IN  IF new_priority < old_priority
        THEN _sift_up(updated, index)
        ELSE _sift_down_on_equal(updated, index)

_update_priority(c, obj_id, new_priority) ==
    LET index == c.index_map[obj_id]
        old_priority == At(c.heap, index).priority
        updated == [c EXCEPT !.heap = SetAt(c.heap, index,
                                            [At(c.heap, index) EXCEPT !.priority = new_priority])]
    IN  IF new_priority < old_priority
        THEN _sift_up(updated, index)
        ELSE IF new_priority > old_priority
             THEN _sift_down(updated, index)
             ELSE updated

(***************************************************************************)
(* _StorageContainer.get_storage.                                          *)
(***************************************************************************)
\* the storage constructed last, handed out again instead of a new one
SharedStorage == IF storages_created = 0 THEN 1 ELSE storages_created

\* a storage numbered by the live sessions: the object of an evicted session again
NewStorageOfEvicted == Len(heap) + 1

\* the identity of the object InMemoryStorage() constructs
NewStorage == storages_created + 1

\* identifier is None
FalsyNoneOnly(identifier) == identifier.type = "NoneType"

\* not identifier
Falsy(identifier) ==
    \/ identifier.type = "NoneType"
    \/ identifier.type = "str" /\ identifier.s = ""

\* a cap test that holds as soon as one session is live
AtSessionCapOnAnySession(c) == c.heap # <<>>

\* len(self.index_map) >= self.MAX_SESSIONS
AtSessionCap(c) == Cardinality(DOMAIN c.index_map) >= MAX_SESSIONS

\* a creation that looks the token up again and refreshes the session it finds
CreateSessionUnlessPresent(c, token, now) ==
    IF token \in DOMAIN c.index_map
    THEN _update_priority(c, token, now)
    ELSE _push(IF AtSessionCap(c) THEN _pop(c) ELSE c, now, token, NewStorage)

\* the container get_storage leaves once the lookup of the token returned None
CreateSession(c, token, now) ==
    _push(IF AtSessionCap(c) THEN _pop(c) ELSE c, now, token, NewStorage)

\* the container a get_storage call with isolation enabled leaves; now is what time_ns returns
GetStorageContainer(c, identifier, now) ==
    IF Falsy(identifier)
    THEN c
    ELSE IF identifier.s \notin DOMAIN c.index_map
         THEN CreateSession(c, identifier.s, now)
         ELSE _update_priority(c, identifier.s, now)

\* a tokenless call served, as with isolation disabled, by the storage at heap[0]
GetStorageReturnRoot(c, identifier, now) ==
    IF Falsy(identifier)
    THEN IF c.heap = <<>> THEN NewStorage ELSE At(c.heap, 0).data
    ELSE IF identifier.s \notin DOMAIN c.index_map
         THEN LET after == GetStorageContainer(c, identifier, now)
              IN  At(after.heap, after.index_map[identifier.s]).data
         ELSE At(c.heap, c.index_map[identifier.s]).data

\* the storage that call returns
GetStorageReturn(c, identifier, now) ==
    IF Falsy(identifier)
    THEN NewStorage
    ELSE IF identifier.s \notin DOMAIN c.index_map
         THEN LET after == GetStorageContainer(c, identifier, now)
              IN  At(after.heap, after.index_map[identifier.s]).data
         ELSE At(c.heap, c.index_map[identifier.s]).data

\* whether that call constructs an InMemoryStorage
GetStorageConstructs(c, identifier) ==
    Falsy(identifier) \/ identifier.s \notin DOMAIN c.index_map

Container == [heap |-> heap, index_map |-> index_map]

\* history of the clock once a reading was not larger than the one before it
NotIncreasing == [last |-> -1, increasing |-> FALSE]

\* the live tokens a step removed from the container
Evicted(before, after) == DOMAIN before \ DOMAIN after

GetStorage(identifier, now) ==
    /\ ~DISABLE_ISOLATION_MODE
    /\ GetStorageConstructs(Container, identifier) => storages_created < MaxStorages
    /\ \E after \in {GetStorageContainer(Container, identifier, now)} :
       \E ret \in {GetStorageReturn(Container, identifier, now)} :
           /\ heap' = after.heap
           /\ index_map' = after.index_map
           /\ storages_created' =
                  IF GetStorageConstructs(Container, identifier)
                  THEN storages_created + 1
                  ELSE storages_created
           /\ call' = [op |-> "get_storage", arg |-> identifier, raised |-> FALSE,
                       ret |-> PyDict(ret),
                       known |-> ~Falsy(identifier) /\ identifier.s \in DOMAIN index_map]
           /\ returned' = returned \cup {ret}
           /\ bundles' =
                  LET made == IF GetStorageConstructs(Container, identifier)
                              THEN DictSet(bundles, NewStorage, InMemoryStorage)
                              ELSE bundles
                  IN  [b \in {ret} \cup {after.heap[n].data : n \in 1..Len(after.heap)}
                          |-> made[b]]
           /\ access_order' =
                  IF Falsy(identifier)
                  THEN access_order
                  ELSE IF clock.increasing /\ now > clock.last
                       THEN Append(Without(access_order, identifier.s), identifier.s)
                       ELSE <<>>
           /\ handed' =
                  LET kept == [t \in DOMAIN handed \cap DOMAIN after.index_map |-> handed[t]]
                  IN  IF ~Falsy(identifier) /\ identifier.s \notin DOMAIN index_map
                      THEN DictSet(kept, identifier.s, ret)
                      ELSE kept
           /\ clock' =
                  IF Falsy(identifier)
                  THEN clock
                  ELSE IF clock.increasing /\ now > clock.last
                       THEN [last |-> now, increasing |-> TRUE]
                       ELSE NotIncreasing
    /\ UNCHANGED <<storage, threads, DISABLE_ISOLATION_MODE, MAX_SESSIONS, duplicate_pushed, table_vars, links_vars>>

\* a request served with the storage at heap[0], whatever its token
SessionBundleAtRoot(token) == At(heap, 0).data

\* the storage get_storage returns for a live token: the one a request with that
\* token works on
SessionBundle(token) == At(heap, index_map[token]).data

\* the bundles one table or index operation of a request leaves: users.add, get and
\* delete, follows.add and remove, articles.add, and the deletion of the first
\* article with its comments and favorites
BundleOps(b) ==
    {[b EXCEPT !.users = ModelAdd(@, [id |-> NoId, username |-> "u1"])] :
        n \in {k \in {b.users.current_id_counter} : k <= BundleCapacity}}
    \cup {[b EXCEPT !.articles = ModelAdd(@, [id |-> NoId, slug |-> "a-b", author_id |-> "1"])] :
        n \in {k \in {b.articles.current_id_counter} : k <= 1}}
    \cup {[b EXCEPT !.users = ModelGet(@, "1")],
          [b EXCEPT !.users = ModelDelete(@, "1")],
          [b EXCEPT !.follows = links_add(@, BundleCapacity, <<"1", "2">>)],
          [b EXCEPT !.follows = links_remove(@, <<"1", "2">>)],
          [b EXCEPT !.articles = ModelDelete(@, "1"),
                    !.favorites = links_delete_target(@, "1"),
                    !.comments = ModelDeleteEach(@, {c_id \in DOMAIN b.comments.objects :
                                     b.comments.objects[c_id].article_id = "1"})]}

\* a request with a live token after get_storage returned: one operation on the
\* bundle it was given
SessionOp(token) ==
    /\ ~DISABLE_ISOLATION_MODE
    /\ token \in DOMAIN index_map
    /\ \E after \in BundleOps(bundles[SessionBundle(token)]) :
           bundles' = [bundles EXCEPT ![SessionBundle(token)] = after]
    /\ call' = [op |-> "session", arg |-> PyStr(token), raised |-> FALSE, ret |-> PyNone]
    /\ UNCHANGED <<storage, threads, DISABLE_ISOLATION_MODE, MAX_SESSIONS, heap, index_map,
                   storages_created, access_order, handed, returned, clock, duplicate_pushed,
                   table_vars, links_vars>>

\* a shared mode that still hands a new storage to a caller without a token
SharedHeapFreshForTokenless(identifier) ==
    IF heap = <<>> \/ Falsy(identifier) THEN <<[storage |-> NewStorage]>> ELSE heap

\* the heap after the isolation-disabled branch: the storage itself is appended
SharedHeap(identifier) == IF heap = <<>> THEN <<[storage |-> NewStorage]>> ELSE heap

\* get_storage with isolation disabled: one storage, kept in heap[0], serves every caller
GetStorageShared(identifier) ==
    /\ DISABLE_ISOLATION_MODE
    /\ heap' = SharedHeap(identifier)
    /\ storages_created' = IF heap = <<>> THEN storages_created + 1 ELSE storages_created
    /\ call' = [op |-> "get_storage", arg |-> identifier, raised |-> FALSE,
                ret |-> PyDict(At(heap', 0).storage), known |-> FALSE]
    /\ returned' = returned \cup {At(heap', 0).storage}
    /\ UNCHANGED <<storage, threads, bundles, DISABLE_ISOLATION_MODE, MAX_SESSIONS, index_map, access_order, handed,
                   clock, duplicate_pushed, table_vars, links_vars>>

(***************************************************************************)
(* The heap methods called directly, as the tests call them.               *)
(***************************************************************************)
KeysInHeap(h) == {h[n].obj_id : n \in 1..Len(h)}

\* one call of _push(priority, obj_id)
PushItem(priority, obj_id) ==
    /\ LET after == _push(Container, priority, obj_id, NoData)
       IN  /\ heap' = after.heap
           /\ index_map' = after.index_map
    /\ duplicate_pushed' =
           (duplicate_pushed \/ obj_id \in KeysInHeap(heap) \/ obj_id \in DOMAIN index_map)
    /\ call' = [op |-> "_push", arg |-> PyStr(obj_id), raised |-> FALSE, ret |-> PyNone]
    /\ UNCHANGED <<storage, threads, bundles, DISABLE_ISOLATION_MODE, MAX_SESSIONS, storages_created, access_order,
                   handed, returned, clock, table_vars, links_vars>>

\* _push with any key, one already in the heap included
Push(priority, obj_id) ==
    /\ Len(heap) < MaxHeap
    /\ PushItem(priority, obj_id)

\* _push with a key that is not in the heap
PushFresh(priority, obj_id) ==
    /\ Len(heap) < MaxFreshHeap
    /\ obj_id \notin KeysInHeap(heap)
    /\ obj_id \notin DOMAIN index_map
    /\ PushItem(priority, obj_id)

Pop ==
    /\ IF _pop_raises(Container)
       THEN /\ call' = [op |-> "_pop", arg |-> PyNone, raised |-> TRUE, ret |-> PyNone]
            /\ UNCHANGED <<heap, index_map>>
       ELSE /\ heap' = _pop(Container).heap
            /\ index_map' = _pop(Container).index_map
            /\ call' = [op |-> "_pop", arg |-> PyNone, raised |-> FALSE,
                        ret |-> _pop_item(Container)]
    /\ UNCHANGED <<storage, threads, bundles, DISABLE_ISOLATION_MODE, MAX_SESSIONS, storages_created, access_order,
                   handed, returned, clock, duplicate_pushed, table_vars, links_vars>>

\* an update that inserts a key it does not find, where the code raises
UpdatePriorityInsertsMissing(obj_id, new_priority) ==
    /\ LET after ==
               IF _update_priority_raises(Container, obj_id)
               THEN _push(Container, new_priority, obj_id, NoData)
               ELSE _update_priority(Container, obj_id, new_priority)
       IN  /\ heap' = after.heap
           /\ index_map' = after.index_map
    /\ call' = [op |-> "_update_priority", arg |-> PyStr(obj_id), raised |-> FALSE,
                ret |-> PyNone, priority |-> new_priority]
    /\ UNCHANGED <<storage, threads, bundles, DISABLE_ISOLATION_MODE, MAX_SESSIONS, storages_created, access_order,
                   handed, returned, clock, duplicate_pushed, table_vars, links_vars>>

UpdatePriority(obj_id, new_priority) ==
    /\ IF _update_priority_raises(Container, obj_id)
       THEN /\ call' = [op |-> "_update_priority", arg |-> PyStr(obj_id), raised |-> TRUE,
                        ret |-> PyNone, priority |-> new_priority]
            /\ UNCHANGED <<heap, index_map>>
       ELSE /\ heap' = _update_priority(Container, obj_id, new_priority).heap
            /\ index_map' = _update_priority(Container, obj_id, new_priority).index_map
            /\ call' = [op |-> "_update_priority", arg |-> PyStr(obj_id), raised |-> FALSE,
                        ret |-> PyNone, priority |-> new_priority]
    /\ UNCHANGED <<storage, threads, bundles, DISABLE_ISOLATION_MODE, MAX_SESSIONS, storages_created, access_order,
                   handed, returned, clock, duplicate_pushed, table_vars, links_vars>>

(***************************************************************************)
(* What callers pass.                                                      *)
(***************************************************************************)
\* the identities of the caller records handed to add; the same record may be added twice
Records == {1, 2}

LongText == "0123456789012345678901234567890123456789012345678901234567890123456789"

\* identifiers handed to get and delete: ints and their texts, stored or not, and malformed ones
IdInputs ==
    {PyInt(n) : n \in 1..MaxCounter}
        \cup {PyStr("2"), PyStr("x")}
        \cup {PyBool(TRUE), PyNone, PyStr(LongText)}

NoCall == [op |-> "init", arg |-> PyNone, raised |-> FALSE, ret |-> PyNone]

\* the session cookie values handed to get_storage
Tokens == {"s0", "s1", "s2", "s3"}

Identifiers == {PyStr(t) : t \in Tokens} \cup {PyStr(""), PyNone}

Times == 0..MaxTime

\* the keys and priorities handed to _push and _update_priority
Keys == {"a", "b", "c"}

Priorities == 0..MaxPriority

\* the keys handed to _push when every key is pushed at most once while it is in the heap
FreshKeys == {"a", "b", "c", "d"}

\* InMemoryModel(max_count) for a max_count that __init__ accepts
TableInit ==
    /\ MAX_ID_LEN = DefaultMaxIdLen
    /\ max_count \in 1..MaxCount
    /\ objects = EmptyDict
    /\ last_accessed_ids = <<>>
    /\ current_id_counter = 1
    /\ id_field = [r \in Records |-> NoId]
    /\ name_field = [r \in Records |-> "test"]
    /\ touched = <<>>

\* the threads that call get_storage
Threads == {1, 2}

\* a thread outside get_storage
Idle == [pc |-> "idle", identifier |-> PyNone, overlapped |-> FALSE]

\* _StorageContainer(disable_isolation_mode, max_sessions)
ContainerInit(disable_isolation_mode, max_sessions) ==
    /\ DISABLE_ISOLATION_MODE = disable_isolation_mode
    /\ MAX_SESSIONS = max_sessions
    /\ heap = <<>>
    /\ index_map = EmptyDict
    /\ storages_created = 0
    /\ access_order = <<>>
    /\ handed = EmptyDict
    /\ returned = {}
    /\ clock = [last |-> -1, increasing |-> TRUE]
    /\ duplicate_pushed = FALSE
    /\ bundles = EmptyDict
    /\ threads = [th \in Threads |-> Idle]

\* InMemoryLinks(max_count): __init__ stores any max_count
LinksInit(m) ==
    /\ links_max_count = m
    /\ links = <<>>

Init ==
    /\ TableInit
    /\ BundleInit
    /\ ContainerInit(FALSE, MaxSessions)
    /\ LinksInit(1)
    /\ call = NoCall

Next ==
    \/ \E obj \in Records : Add(obj)
    \/ \E value \in IdInputs : Get(value)
    \/ \E value \in IdInputs : Delete(value)

\* an InMemoryModel under add, get and delete
Spec == Init /\ [][Next]_vars

\* a table in a process whose MAX_ID_LEN is small enough for the counter to reach it
InitOverflow ==
    /\ MAX_ID_LEN = LowMaxIdLen
    /\ max_count \in 1..MaxCount
    /\ objects = EmptyDict
    /\ last_accessed_ids = <<>>
    /\ current_id_counter = 1
    /\ id_field = [r \in Records |-> NoId]
    /\ name_field = [r \in Records |-> "test"]
    /\ touched = <<>>
    /\ BundleInit
    /\ ContainerInit(FALSE, MaxSessions)
    /\ LinksInit(1)
    /\ call = NoCall

\* the first and the last id such a table assigns, and a malformed identifier
OverflowInputs == {PyInt(1), PyStr("9"), PyBool(TRUE)}

NextOverflow ==
    \/ \E obj \in Records : Add(obj)
    \/ \E value \in OverflowInputs : Get(value)
    \/ \E value \in OverflowInputs : Delete(value)

\* an InMemoryModel under add, get and delete until its ids are exhausted
SpecOverflow == InitOverflow /\ [][NextOverflow]_vars

\* identifiers of the first two records, as get and delete are given them, and a
\* malformed one
AliasInputs == {PyInt(1), PyStr("2"), PyBool(TRUE)}

NextAlias ==
    \/ \E obj \in Records : Add(obj)
    \/ \E value \in AliasInputs : Get(value)
    \/ \E value \in AliasInputs : Delete(value)
    \/ \E obj \in Records : SetName(obj)
    \/ \E method \in Views : Iterate(method)

\* an InMemoryModel whose callers keep and change the records they added or got
SpecAlias == Init /\ [][NextAlias]_vars

\* no table has been constructed yet: max_count holds no capacity
InitConstruct ==
    /\ MAX_ID_LEN = DefaultMaxIdLen
    /\ max_count = 0
    /\ objects = EmptyDict
    /\ last_accessed_ids = <<>>
    /\ current_id_counter = 1
    /\ id_field = [r \in Records |-> NoId]
    /\ name_field = [r \in Records |-> "test"]
    /\ touched = <<>>
    /\ BundleInit
    /\ ContainerInit(FALSE, MaxSessions)
    /\ LinksInit(1)
    /\ call = NoCall

\* the table methods are called on a constructed table
NextConstruct ==
    \/ \E m \in (-1)..MaxCount : Construct(m)
    \/ /\ max_count # 0
       /\ \/ \E obj \in Records : Add(obj)
          \/ \E value \in AliasInputs : Get(value)
          \/ \E value \in AliasInputs : Delete(value)

\* tables are constructed, with valid and invalid capacities, and used
SpecConstruct == InitConstruct /\ [][NextConstruct]_vars

\* _StorageContainer(disable_isolation_mode=True), with any cap
InitShared ==
    /\ TableInit
    /\ max_count = 1
    /\ BundleInit
    /\ \E max_sessions \in 0..MaxSessions : ContainerInit(TRUE, max_sessions)
    /\ LinksInit(1)
    /\ call = NoCall

\* requests of any caller: each is given the storage by get_storage, and registrations
\* and follows are written to the storage a get_storage returned
NextShared ==
    \/ \E identifier \in Identifiers : GetStorageShared(identifier)
    \/ /\ heap # <<>>
       /\ \/ \E username \in Usernames : _handle_register(username)
          \/ \E username \in Followed, current_user_id \in CurrentUsers :
                  _handle_follow_user(username, current_user_id)

\* a container with isolation disabled
SpecShared == InitShared /\ [][NextShared]_vars

NextAddGet ==
    \/ \E obj \in Records : Add(obj)
    \/ \E value \in IdInputs : Get(value)

\* an InMemoryModel under add and get only
SpecAddGet == Init /\ [][NextAddGet]_vars

\* __init__ stores max_sessions as given: 0 is accepted like any other int
InitContainer ==
    /\ TableInit
    /\ max_count = 1
    /\ BundleInit
    /\ \E max_sessions \in 0..MaxSessions : ContainerInit(FALSE, max_sessions)
    /\ LinksInit(1)
    /\ call = NoCall

NextContainer == \E identifier \in Identifiers, now \in Times : GetStorage(identifier, now)

\* a container with isolation enabled under get_storage
SpecContainer == InitContainer /\ [][NextContainer]_vars

\* get_storage by a thread, up to the lookup of a token that index_map does not
\* hold (lines 296-299); overlapped: another call was under way during this one
RaceLookup(th, token) ==
    /\ ~DISABLE_ISOLATION_MODE
    /\ threads[th].pc = "idle"
    /\ token \notin DOMAIN index_map
    /\ threads' = [o \in Threads |->
                      IF o = th
                      THEN [pc |-> "create", identifier |-> PyStr(token),
                            overlapped |-> \E x \in Threads : threads[x].pc = "create"]
                      ELSE IF threads[o].pc = "create"
                           THEN [threads[o] EXCEPT !.overlapped = TRUE]
                           ELSE threads[o]]
    /\ UNCHANGED <<storage, bundles, DISABLE_ISOLATION_MODE, MAX_SESSIONS, heap, index_map,
                   storages_created, access_order, handed, returned, clock, duplicate_pushed,
                   table_vars, links_vars, call>>

\* the rest of that call (lines 300-303): _pop at the cap, which raises KeyError when
\* the key of the root is not in index_map, then _push and the return
RaceCreate(th, now) ==
    /\ threads[th].pc = "create"
    /\ storages_created < MaxStorages
    /\ threads' = [threads EXCEPT ![th] = Idle]
    /\ LET token == threads[th].identifier.s
       IN  IF AtSessionCap(Container) /\ _pop_raises(Container)
           THEN /\ call' = [op |-> "get_storage", arg |-> PyStr(token), raised |-> TRUE,
                            ret |-> PyNone, known |-> FALSE]
                /\ UNCHANGED <<heap, index_map, storages_created, returned, bundles, handed,
                               access_order, clock, duplicate_pushed>>
           ELSE LET after == CreateSession(Container, token, now)
                    ret == At(after.heap, after.index_map[token]).data
                IN  /\ heap' = after.heap
                    /\ index_map' = after.index_map
                    /\ storages_created' = storages_created + 1
                    /\ call' = [op |-> "get_storage", arg |-> PyStr(token), raised |-> FALSE,
                                ret |-> PyDict(ret), known |-> FALSE]
                    /\ returned' = returned \cup {ret}
                    /\ bundles' = [b \in {ret} \cup {after.heap[n].data : n \in 1..Len(after.heap)}
                                      |-> DictSet(bundles, NewStorage, InMemoryStorage)[b]]
                    /\ handed' = DictSet([t \in DOMAIN handed \cap DOMAIN after.index_map
                                             |-> handed[t]], token, ret)
                    /\ access_order' = Append(Without(access_order, token), token)
                    /\ clock' = [last |-> now, increasing |-> TRUE]
                    /\ duplicate_pushed' = (duplicate_pushed \/ token \in DOMAIN index_map)
    /\ UNCHANGED <<storage, DISABLE_ISOLATION_MODE, MAX_SESSIONS, table_vars, links_vars>>

\* two threads in get_storage with a clock that advances from call to call: a call
\* that finds its token runs lines 304-306 in one step, a call that does not find it
\* may be overtaken between the lookup and the _push
NextRace ==
    \/ \E th \in Threads, token \in {"s0", "s1"} : RaceLookup(th, token)
    \/ \E th \in Threads, now \in Times : now = clock.last + 1 /\ RaceCreate(th, now)
    \/ \E token \in {"s0", "s1"}, now \in Times :
            /\ now = clock.last + 1
            /\ token \in DOMAIN index_map
            /\ index_map[token] < Len(heap)
            /\ GetStorage(PyStr(token), now)

SpecRace == InitContainer /\ [][NextRace]_vars

\* requests of two sessions: get_storage, with a clock that advances between the
\* calls, and the operations on the bundle it returned
NextSessions ==
    \/ \E token \in {"s0", "s1"}, now \in Times :
            now = clock.last + 1 /\ GetStorage(PyStr(token), now)
    \/ \E token \in {"s0", "s1"} : SessionOp(token)

SpecSessions == InitContainer /\ [][NextSessions]_vars

InitHeap ==
    /\ TableInit
    /\ max_count = 1
    /\ BundleInit
    /\ ContainerInit(FALSE, MaxSessions)
    /\ LinksInit(1)
    /\ call = NoCall

NextHeap ==
    \/ \E priority \in Priorities, obj_id \in Keys : Push(priority, obj_id)
    \/ Pop
    \/ \E obj_id \in Keys, new_priority \in Priorities : UpdatePriority(obj_id, new_priority)

\* a container whose heap methods are called directly
SpecHeap == InitHeap /\ [][NextHeap]_vars

NextHeapFresh ==
    \/ \E priority \in Priorities, obj_id \in FreshKeys : PushFresh(priority, obj_id)
    \/ Pop
    \/ \E obj_id \in FreshKeys, new_priority \in Priorities : UpdatePriority(obj_id, new_priority)

\* the same, when _push is only given keys that are not in the heap
SpecHeapFresh == InitHeap /\ [][NextHeapFresh]_vars

RECURSIVE Pow10(_)
Pow10(n) == IF n = 0 THEN 1 ELSE 10 * Pow10(n - 1)

\* "x" * n
RECURSIVE Repeat(_, _)
Repeat(text, n) == IF n = 0 THEN "" ELSE text \o Repeat(text, n - 1)

\* every text of at most n characters over the letters x and 1
RECURSIVE TextsUpTo(_)
TextsUpTo(n) ==
    IF n = 0
    THEN {""}
    ELSE TextsUpTo(n - 1) \cup {t \o ch : t \in TextsUpTo(n - 1), ch \in {"x", "1"}}

\* what normalize_id is given: ints of either sign, texts up to and beyond the length
\* bound, and values of every other type
NormalizeInputs ==
    {PyInt(n) : n \in (-Pow10(MaxDigits))..Pow10(MaxDigits)}
        \cup {PyStr(t) : t \in TextsUpTo(MaxIdLen + 1)}
        \cup {PyStr(Repeat("x", DefaultMaxIdLen)), PyStr(Repeat("x", DefaultMaxIdLen + 1))}
        \cup {PyBool(TRUE), PyBool(FALSE), PyFloat(1), PyNone, PyList, PyDict(1)}

\* one call of normalize_id(value), on the value the caller holds
Normalize ==
    /\ call.op = "value"
    /\ call' = [op |-> "normalize_id", arg |-> call.arg,
                raised |-> normalize_id_raises(call.arg),
                ret |-> IF normalize_id_raises(call.arg)
                        THEN PyNone
                        ELSE PyStr(normalize_id(call.arg))]
    /\ UNCHANGED <<table_vars, container_vars, links_vars, storage>>

\* MAX_ID_LEN is read from the environment: the default, or a small positive bound
InitNormalize ==
    /\ MAX_ID_LEN \in 1..MaxIdLen \cup {DefaultMaxIdLen}
    /\ max_count = 1
    /\ objects = EmptyDict
    /\ last_accessed_ids = <<>>
    /\ current_id_counter = 1
    /\ id_field = [r \in Records |-> NoId]
    /\ name_field = [r \in Records |-> "test"]
    /\ touched = <<>>
    /\ BundleInit
    /\ ContainerInit(FALSE, MaxSessions)
    /\ LinksInit(1)
    /\ \E value \in NormalizeInputs :
           call = [op |-> "value", arg |-> value, raised |-> FALSE, ret |-> PyNone]

NextNormalize == Normalize

\* normalize_id applied to each input under each MAX_ID_LEN
SpecNormalize == InitNormalize /\ [][NextNormalize]_vars

\* the identifiers handed to InMemoryLinks: 1 and "1" name the same key, True is malformed
LinkIds == {PyInt(1), PyStr("1"), PyInt(2), PyBool(TRUE)}

InitLinks ==
    /\ TableInit
    /\ max_count = 1
    /\ BundleInit
    /\ ContainerInit(FALSE, MaxSessions)
    /\ \E m \in (-1)..MaxLinks : LinksInit(m)
    /\ call = NoCall

NextLinks ==
    \/ \E source \in LinkIds, target \in LinkIds : LinksAdd(source, target)
    \/ \E source \in LinkIds, target \in LinkIds : LinksRemove(source, target)
    \/ \E source_to_delete \in LinkIds : LinksDeleteSource(source_to_delete)
    \/ \E target_to_delete \in LinkIds : LinksDeleteTarget(target_to_delete)
    \/ \E source \in LinkIds, target \in LinkIds : LinksIsLinked(source, target)
    \/ \E wanted_source \in LinkIds : LinksTargetsForSource(wanted_source)
    \/ \E wanted_target \in LinkIds : LinksSourcesForTarget(wanted_target)

\* an InMemoryLinks under its seven methods
SpecLinks == InitLinks /\ [][NextLinks]_vars

(***************************************************************************)
(* The properties.                                                         *)
(***************************************************************************)
\* the timestamp the heap stores for token t
PriorityOf(h, t) == h[CHOOSE n \in 1..Len(h) : h[n].obj_id = t].priority

IsToken(value) == value.type = "str" /\ value.s \in Tokens

IsTokenless(value) == value = PyNone \/ value = PyStr("")

\* index_map and heap name each other's positions exactly
IndexConsistent(h, im) ==
    /\ Cardinality(DOMAIN im) = Len(h)
    /\ \A k \in DOMAIN im :
           /\ im[k] \in 0..(Len(h) - 1)
           /\ At(h, im[k]).obj_id = k
           /\ At(h, im[k]).index = im[k]
    /\ \A i \in 0..(Len(h) - 1) :
           /\ At(h, i).obj_id \in DOMAIN im
           /\ im[At(h, i).obj_id] = i

\* C1: after every completed add, get or delete on a table of capacity N >= 1,
\* the table stores at most N records.
TableWithinCapacity == Cardinality(DOMAIN objects) <= max_count

\* C1 witness: an add has just completed on a full table that evicted before
\* (an id that was touched and never deleted is no longer stored).
TableFullAfterEviction ==
    /\ call.op = "add"
    /\ ~call.raised
    /\ Cardinality(DOMAIN objects) = max_count
    /\ \E id \in Elements(touched) : id \notin DOMAIN objects

\* C2: under add and get, after every call the stored keys are exactly the
\* min(N, number of adds) most recently touched ids, and last_accessed_ids lists
\* them from least to most recently touched (touched is the history of touches,
\* kept without regard to the capacity).
RecentlyTouchedRetained ==
    LET adds == current_id_counter - 1
        n == IF adds < max_count THEN adds ELSE max_count
        recent == SubSeq(touched, Len(touched) - n + 1, Len(touched))
    IN  /\ Len(touched) = adds
        /\ last_accessed_ids = recent
        /\ DOMAIN objects = Elements(recent)

\* C2 witness: capacity 3, ids 1, 2, 3, then get(1), then the add of 4 evicted 2, not 1.
ReadKeptFromEviction ==
    /\ max_count = 3
    /\ last_accessed_ids = <<"3", "1", "4">>
    /\ DOMAIN objects = {"1", "3", "4"}

\* C3: with isolation enabled, after any get_storage calls the number of live
\* sessions, len(index_map) = len(heap), is at most MAX_SESSIONS.
SessionsWithinCap ==
    /\ Cardinality(DOMAIN index_map) = Len(heap)
    /\ Len(heap) <= MAX_SESSIONS

\* the same for the caps the configuration is documented to allow (MAX_SESSIONS >= 1)
SessionsWithinPositiveCap == MAX_SESSIONS >= 1 => SessionsWithinCap

\* C4: a get_storage call with an unknown token on a container holding MAX_SESSIONS
\* sessions evicts exactly one session, one whose stored timestamp is the smallest;
\* and when every call so far read a strictly larger time_ns, it is the live session
\* whose latest get_storage call is the oldest.
EvictsLeastRecentlyUsed ==
    [][\A t \in Tokens :
           (/\ t \notin DOMAIN index_map
            /\ t \in DOMAIN index_map'
            /\ Cardinality(DOMAIN index_map) = MAX_SESSIONS)
           => LET gone == Evicted(index_map, index_map')
                  live_order == SelectSeq(access_order, LAMBDA x : x \in DOMAIN index_map)
              IN  /\ Cardinality(gone) = 1
                  /\ \A e \in gone :
                         /\ \A u \in DOMAIN index_map : PriorityOf(heap, e) <= PriorityOf(heap, u)
                         /\ clock'.increasing => e = Head(live_order)]_vars

\* the same for the caps the configuration is documented to allow (MAX_SESSIONS >= 1)
EvictsLeastRecentlyUsedPositiveCap ==
    [][\A t \in Tokens :
           (/\ MAX_SESSIONS >= 1
            /\ t \notin DOMAIN index_map
            /\ t \in DOMAIN index_map'
            /\ Cardinality(DOMAIN index_map) = MAX_SESSIONS)
           => LET gone == Evicted(index_map, index_map')
                  live_order == SelectSeq(access_order, LAMBDA x : x \in DOMAIN index_map)
              IN  /\ Cardinality(gone) = 1
                  /\ \A e \in gone :
                         /\ \A u \in DOMAIN index_map : PriorityOf(heap, e) <= PriorityOf(heap, u)
                         /\ clock'.increasing => e = Head(live_order)]_vars

\* C5 as stated: for MAX_SESSIONS >= 2, whatever the clock reads (equal readings
\* included), the call after a get_storage on a known token t never evicts t when it
\* creates a session at the cap.
RefreshedSessionNeverEvicted ==
    [][(/\ MAX_SESSIONS >= 2
        /\ call.op = "get_storage"
        /\ call.known
        /\ \E t \in Tokens : t \notin DOMAIN index_map /\ t \in DOMAIN index_map'
        /\ Cardinality(DOMAIN index_map) >= MAX_SESSIONS)
       => call.arg.s \in DOMAIN index_map']_vars

\* C5 amended: for MAX_SESSIONS >= 2, a get_storage call on a known token t stores
\* the reading as t's timestamp, the largest of all when the readings have strictly
\* increased; and a call that creates a session at the cap evicts no session whose
\* stored timestamp is strictly larger than another live session's, the session
\* refreshed by the call before it in particular.
RefreshedSessionKeptWhenNewer ==
    [][/\ (/\ MAX_SESSIONS >= 2
           /\ call'.op = "get_storage"
           /\ call'.known
           /\ clock'.increasing)
          => /\ PriorityOf(heap', call'.arg.s) = clock'.last
             /\ \A u \in DOMAIN index_map' \ {call'.arg.s} :
                    PriorityOf(heap', u) < clock'.last
       /\ (/\ MAX_SESSIONS >= 2
           /\ \E t \in Tokens : t \notin DOMAIN index_map /\ t \in DOMAIN index_map'
           /\ Cardinality(DOMAIN index_map) >= MAX_SESSIONS)
          => \A t \in DOMAIN index_map :
                 (\E u \in DOMAIN index_map \ {t} : PriorityOf(heap, u) < PriorityOf(heap, t))
                 => t \in DOMAIN index_map']_vars

\* C5 witness: cap 2 and readings 0, 1, 2, 3: s0 was created first, s1 second, s0 was
\* refreshed at 2, and the creation of s2 at 3 evicted s1 and kept s0.
RefreshedSessionSurvived ==
    /\ MAX_SESSIONS = 2
    /\ clock = [last |-> 3, increasing |-> TRUE]
    /\ DOMAIN handed = {"s0", "s2"}
    /\ handed["s0"] = 1
    /\ handed["s2"] = 3
    /\ PriorityOf(heap, "s0") = 2
    /\ PriorityOf(heap, "s2") = 3

\* C6: every get_storage call with a non-empty token returns the storage that the
\* call creating the token's live session returned, and the heap keeps that storage
\* under the token, whatever calls for other tokens came between.
SameTokenSameStorage ==
    /\ (call.op = "get_storage" /\ IsToken(call.arg))
       => (call.arg.s \in DOMAIN handed /\ call.ret = PyDict(handed[call.arg.s]))
    /\ \A t \in DOMAIN handed :
           \E n \in 1..Len(heap) : heap[n].obj_id = t /\ heap[n].data = handed[t]

\* C6 witness: the first session ever created is returned again by a call on its
\* known token, after two other storages were created and after its heap slot moved.
FirstSessionReturnedAgain ==
    /\ call.op = "get_storage"
    /\ call.known
    /\ call.ret = PyDict(1)
    /\ storages_created = 3
    /\ Len(heap) = 2
    /\ heap[2].obj_id = call.arg.s

\* C7: no storage is the payload of two heap entries, and no two live tokens were
\* handed the same storage.
DistinctTokensDistinctStorages ==
    /\ \A i, j \in 1..Len(heap) : i # j => heap[i].data # heap[j].data
    /\ \A t, u \in DOMAIN handed : t # u => handed[t] # handed[u]

\* C7 witness: two live sessions, one of them created after another was evicted.
TwoSessionsAfterEviction ==
    /\ Len(heap) = 2
    /\ MAX_SESSIONS = 2
    /\ clock.increasing
    /\ Len(access_order) = 3

\* C8: the storage a tokenless get_storage call (None or "") returns was returned
\* by no earlier call and is held by no heap entry, before or after the call.
TokenlessStorageIsFresh ==
    [][(call'.op = "get_storage" /\ IsTokenless(call'.arg))
       => /\ call'.ret.i \notin returned
          /\ \A n \in 1..Len(heap) : heap[n].data # call'.ret.i
          /\ \A n \in 1..Len(heap') : heap'[n].data # call'.ret.i]_vars

\* C8 witness: a tokenless call with "" has returned, after two earlier calls
\* returned storages and while the container holds a session.
TokenlessCallAfterOthers ==
    /\ call.op = "get_storage"
    /\ call.arg = PyStr("")
    /\ Cardinality(returned) = 3
    /\ Len(heap) >= 1

\* C9: a tokenless get_storage call (None or "") leaves heap and index_map, with
\* every stored priority and storage, as they were.
TokenlessLeavesContainer ==
    [][(call'.op = "get_storage" /\ IsTokenless(call'.arg))
       => (heap' = heap /\ index_map' = index_map)]_vars

\* C9 witness: a tokenless call with None has returned on a container that is at
\* its cap of 2 sessions.
TokenlessCallAtCap ==
    /\ call.op = "get_storage"
    /\ call.arg = PyNone
    /\ MAX_SESSIONS = 2
    /\ Len(heap) = 2

\* C10: after every _push, _pop and _update_priority call, with keys and priorities
\* chosen arbitrarily, index_map and heap are exactly consistent.
HeapIndexConsistent == IndexConsistent(heap, index_map)

\* the same while no _push was given a key that was already in the heap, which is
\* how get_storage calls _push
HeapIndexConsistentForFreshKeys == ~duplicate_pushed => IndexConsistent(heap, index_map)

\* the min-heap property of TestStorageContainer._verify_heap_property
MinHeap(h) ==
    \A i \in 1..(Len(h) - 1) : At(h, (i - 1) \div 2).priority <= At(h, i).priority

\* C11: after every _push of a key that is not in the heap, every _pop and every
\* _update_priority of a present key, the heap array has the min-heap property.
HeapOrdered == MinHeap(heap)

\* C11 witness: an _update_priority has just raised the priority of a key in a heap
\* of four, the key sank two levels to slot 3, and two items have equal priorities.
UpdatedKeySankTwoLevels ==
    /\ call.op = "_update_priority"
    /\ ~call.raised
    /\ Len(heap) = 4
    /\ index_map[call.arg.s] = 3
    /\ call.priority = MaxPriority
    /\ At(heap, 0).priority = At(heap, 2).priority
    /\ At(heap, 1).priority < MaxPriority

\* C12: with isolation enabled, after every get_storage call the container's heap
\* has the min-heap property and index_map is exactly consistent with the heap.
ContainerHeapSound ==
    /\ MinHeap(heap)
    /\ IndexConsistent(heap, index_map)

\* C12 witness: at the cap of 2, a call with an unknown token evicted a session and,
\* having read a smaller time than the remaining session's, its new session was
\* sifted up to the root.
NewSessionSiftedToRoot ==
    /\ call.op = "get_storage"
    /\ IsToken(call.arg)
    /\ ~call.known
    /\ MAX_SESSIONS = 2
    /\ storages_created = 3
    /\ Len(heap) = 2
    /\ index_map[call.arg.s] = 0
    /\ At(heap, 0).priority < At(heap, 1).priority

\* the priorities stored in heap h
PrioritiesIn(h) == {h[n].priority : n \in 1..Len(h)}

\* C13: _pop on a non-empty heap of distinct keys returns an entry of the heap whose
\* priority is the minimum of all, removes it (the other entries all stay) and
\* removes its key from index_map; a _pop right after a _pop returns a priority that
\* is not smaller, and the _pop of the last entry leaves heap and index_map empty.
PopReturnsMinimum ==
    [][(call'.op = "_pop" /\ heap # <<>>)
       => /\ ~call'.raised
          /\ call'.ret \in Elements(heap)
          /\ \A p \in PrioritiesIn(heap) : call'.ret.priority <= p
          /\ KeysInHeap(heap') = KeysInHeap(heap) \ {call'.ret.obj_id}
          /\ Len(heap') = Len(heap) - 1
          /\ DOMAIN index_map' = DOMAIN index_map \ {call'.ret.obj_id}
          /\ \A n \in 1..Len(heap') :
                 \E k \in 1..Len(heap) :
                     /\ heap[k].obj_id = heap'[n].obj_id
                     /\ heap[k].priority = heap'[n].priority
                     /\ heap[k].data = heap'[n].data
          /\ (call.op = "_pop" /\ call.ret # NoItem) => call.ret.priority <= call'.ret.priority
          /\ Len(heap) = 1 => (heap' = <<>> /\ index_map' = EmptyDict)]_vars

\* C13 witness: a _pop has returned the minimum of a heap of four and left three
\* entries, the former last entry having been moved to the root and sifted down
\* below a smaller one.
PoppedFromFour ==
    /\ call.op = "_pop"
    /\ call.ret # NoItem
    /\ Len(heap) = 3
    /\ call.ret.priority < At(heap, 0).priority
    /\ At(heap, 0).priority < At(heap, 1).priority
    /\ At(heap, 0).priority < At(heap, 2).priority

\* C14: _update_priority with a key that is not in index_map raises and leaves heap
\* and index_map as they were, whatever the heap holds.
UpdateOfAbsentKeyRaises ==
    [][(call'.op = "_update_priority" /\ call'.arg.s \notin DOMAIN index_map)
       => /\ call'.raised
          /\ heap' = heap
          /\ index_map' = index_map]_vars

\* C14 witness: an _update_priority has raised on a heap of three items.
UpdateRaisedOnFullHeap ==
    /\ call.op = "_update_priority"
    /\ call.raised
    /\ Len(heap) = MaxHeap
    /\ call.arg.s \notin DOMAIN index_map

\* C15: _update_priority of a present key to the priority it has leaves the heap
\* array and index_map identical.
UpdateToSamePriorityChangesNothing ==
    [][(/\ call'.op = "_update_priority"
        /\ call'.arg.s \in DOMAIN index_map
        /\ call'.priority = At(heap, index_map[call'.arg.s]).priority)
       => /\ ~call'.raised
          /\ heap' = heap
          /\ index_map' = index_map]_vars

\* C15 witness: an _update_priority has returned for the root key of a heap of four
\* whose priority it was given again and whose children have that same priority.
RootUpdatedToSamePriority ==
    /\ call.op = "_update_priority"
    /\ ~call.raised
    /\ Len(heap) = 4
    /\ index_map[call.arg.s] = 0
    /\ call.priority = At(heap, 0).priority
    /\ At(heap, 1).priority = At(heap, 0).priority
    /\ At(heap, 2).priority = At(heap, 0).priority

\* no pair is stored twice
NoDuplicates(list) == \A i, j \in 1..Len(list) : i # j => list[i] # list[j]

\* C16: InMemoryLinks.add of a pair that is present moves it to the tail and changes
\* nothing else (same pairs, same number, the others in the same order, also when the
\* index is full); and links never holds a pair twice.
DuplicateAddMovesToTail ==
    [][/\ (/\ call'.op = "links.add"
           /\ ~call'.raised
           /\ LinkOf(call'.arg, call'.target) \in Elements(links))
          => LET pair == LinkOf(call'.arg, call'.target)
             IN  /\ links' = Append(SelectSeq(links, LAMBDA l : l # pair), pair)
                 /\ Len(links') = Len(links)
                 /\ Elements(links') = Elements(links)
       /\ NoDuplicates(links')]_vars

\* C16 witness: on a full index of capacity 3, the add of a pair that was stored,
\* given as the int 1 where the text "1" names the same key, has put it at the tail.
DuplicateAddedToFullIndex ==
    /\ call.op = "links.add"
    /\ call.present
    /\ call.before = 3
    /\ links_max_count = 3
    /\ Len(links) = 3
    /\ call.arg = PyInt(1)
    /\ links[3] = <<"1", "2">>

\* C17: InMemoryLinks.add of a pair that is not present, with capacity M >= 1: on an
\* index holding M pairs it removes the head and appends the pair, keeping the order
\* of the rest; below capacity it only appends.
NewAddEvictsHead ==
    [][(/\ call'.op = "links.add"
        /\ ~call'.raised
        /\ links_max_count >= 1
        /\ LinkOf(call'.arg, call'.target) \notin Elements(links))
       => LET pair == LinkOf(call'.arg, call'.target)
          IN  /\ Len(links) = links_max_count => links' = Append(Tail(links), pair)
              /\ Len(links) < links_max_count => links' = Append(links, pair)
              /\ Len(links) <= links_max_count]_vars

\* C17 witness: the claim's example with the keys of the model: capacity 3, the add
\* of a fourth new pair removed the oldest and left the other three in order.
FourthAddEvictedOldest ==
    /\ call.op = "links.add"
    /\ ~call.present
    /\ call.before = 3
    /\ links_max_count = 3
    /\ links = << <<"1", "2">>, <<"2", "1">>, <<"2", "2">> >>

\* C18: for an InMemoryLinks of capacity M >= 0, after every add, remove,
\* delete_source and delete_target the number of stored pairs is at most M; and for
\* M = 0 every add with valid identifiers returns without raising and leaves links
\* empty.
LinksWithinCapacity ==
    [][/\ links_max_count >= 0 => Len(links') <= links_max_count
       /\ (/\ links_max_count = 0
           /\ call'.op = "links.add"
           /\ ~normalize_id_raises(call'.arg)
           /\ ~normalize_id_raises(call'.target))
          => (~call'.raised /\ links' = <<>> /\ links = <<>>)]_vars

\* C18 witness: an add with valid identifiers has returned on an index of capacity 0.
AddToZeroCapacityIndex ==
    /\ links_max_count = 0
    /\ call.op = "links.add"
    /\ ~call.raised
    /\ links = <<>>

\* C19: normalize_id raises, and returns no key, for every bool, float, None, list
\* and dict, and for every str longer than MAX_ID_LEN.
NormalizeRejectsMalformed ==
    (/\ call.op = "normalize_id"
     /\ \/ call.arg.type \in {"bool", "float", "NoneType", "list", "dict"}
        \/ call.arg.type = "str" /\ Len(call.arg.s) > MAX_ID_LEN)
    => (call.raised /\ call.ret = PyNone)

\* C19 witness: normalize_id(False) has raised.
NormalizedFalse ==
    /\ call.op = "normalize_id"
    /\ call.arg = PyBool(FALSE)
    /\ call.raised

\* the number of characters of the decimal text of n, its sign included
DecimalLength(n) ==
    LET magnitude == IF n < 0 THEN -n ELSE n
        digits == CHOOSE d \in 1..(MaxDigits + 2) :
                      /\ magnitude < Pow10(d)
                      /\ d > 1 => magnitude >= Pow10(d - 1)
    IN  IF n < 0 THEN digits + 1 ELSE digits

\* C20 as stated: normalize_id succeeds for every int, of any sign and magnitude,
\* returning its decimal text, and for every str of at most MAX_ID_LEN characters,
\* returning it unchanged.
NormalizeAcceptsEveryInt ==
    call.op = "normalize_id"
    => /\ call.arg.type = "int" => (~call.raised /\ call.ret = PyStr(str(call.arg.i)))
       /\ (call.arg.type = "str" /\ Len(call.arg.s) <= MAX_ID_LEN)
          => (~call.raised /\ call.ret = call.arg)

\* C20 amended: normalize_id succeeds for every int whose decimal text, sign included,
\* has at most MAX_ID_LEN characters, returning that text, and for every str of at most
\* MAX_ID_LEN characters, returning it unchanged; an int with a longer decimal text
\* raises; and an int n fares exactly as the str str(n) does.
NormalizeAcceptsBoundedText ==
    call.op = "normalize_id"
    => /\ (call.arg.type = "int" /\ DecimalLength(call.arg.i) <= MAX_ID_LEN)
          => /\ ~call.raised
             /\ call.ret = PyStr(str(call.arg.i))
             /\ Len(call.ret.s) = DecimalLength(call.arg.i)
       /\ (call.arg.type = "int" /\ DecimalLength(call.arg.i) > MAX_ID_LEN) => call.raised
       /\ (call.arg.type = "str" /\ Len(call.arg.s) <= MAX_ID_LEN)
          => (~call.raised /\ call.ret = call.arg)
       /\ call.arg.type = "int"
          => /\ call.raised = normalize_id_raises(PyStr(str(call.arg.i)))
             /\ ~call.raised => call.ret = PyStr(normalize_id(PyStr(str(call.arg.i))))

\* C20 witness: with MAX_ID_LEN = 3, normalize_id(-10) has returned "-10", a text of
\* exactly MAX_ID_LEN characters.
NormalizedNegativeAtBound ==
    /\ call.op = "normalize_id"
    /\ MAX_ID_LEN = 3
    /\ call.arg = PyInt(-10)
    /\ call.ret = PyStr("-10")

\* a value that is neither an int nor a str, or whose text is longer than MAX_ID_LEN
Malformed(value) ==
    \/ value.type \notin {"int", "str"}
    \/ Len(IdText(value)) > MAX_ID_LEN

\* the identifiers a completed call was given
GivenIdentifiers(c) ==
    IF c.op \in {"get", "delete", "links.delete_source", "links.targets_for_source"}
    THEN {c.arg}
    ELSE IF c.op \in {"links.delete_target", "links.sources_for_target"}
         THEN {c.target}
         ELSE IF c.op \in {"links.add", "links.remove", "links.is_linked"}
              THEN {c.arg, c.target}
              ELSE {}

\* C21: every InMemoryModel.get/delete and every InMemoryLinks add, remove, is_linked,
\* targets_for_source, sources_for_target, delete_source and delete_target call that
\* was given a malformed identifier has raised, whatever the table or index held.
InvalidIdentifierSurfaced ==
    (\E value \in GivenIdentifiers(call) : Malformed(value)) => call.raised

\* the same for the methods that call normalize_id before anything else
InvalidIdentifierSurfacedByEagerMethods ==
    (/\ call.op \in {"get", "delete", "links.add", "links.remove", "links.is_linked"}
     /\ \E value \in GivenIdentifiers(call) : Malformed(value))
    => call.raised

\* the same for the four methods that call normalize_id once per stored pair, on an
\* index that holds a pair
InvalidIdentifierSurfacedWhenPairsStored ==
    [][(/\ links # <<>>
        /\ call'.op \in {"links.delete_source", "links.delete_target",
                          "links.targets_for_source", "links.sources_for_target"}
        /\ \E value \in GivenIdentifiers(call') : Malformed(value))
       => call'.raised]_vars

\* the ids a table holds or has written into a record
IdsInUse == DOMAIN objects \cup ({id_field[r] : r \in Records} \ {NoId}) \cup Elements(touched)

\* the ids that counter values below n have the decimal text of
TextsBelow(n) == {StrNat(c) : c \in 1..(n - 1)}

\* C22: a successful add writes the decimal text of the counter into the record it was
\* given, whatever id the record carried, and advances the counter by exactly 1; every
\* other call (get, delete, a failing add) and the eviction inside add leave the counter
\* alone. The id written is the text of no smaller counter value and is held by nothing
\* in the table, so ids are strictly increasing and none is assigned twice, also after
\* the record that held it was deleted or evicted.
CounterAdvancesByOne ==
    [][/\ IF call'.op = "add" /\ ~call'.raised
          THEN /\ current_id_counter' = current_id_counter + 1
               /\ id_field'[call'.arg.i] = StrNat(current_id_counter)
               /\ \A r \in Records \ {call'.arg.i} : id_field'[r] = id_field[r]
               /\ StrNat(current_id_counter) \notin IdsInUse \cup TextsBelow(current_id_counter)
          ELSE current_id_counter' = current_id_counter
       /\ IdsInUse' \subseteq TextsBelow(current_id_counter')]_vars

\* a completed add after which both records carry an id and more ids have been assigned
\* than there are records (one record was added again) or keys left in the table
ReaddedAfterIdsLeft ==
    /\ call.op = "add"
    /\ ~call.raised
    /\ current_id_counter > Cardinality(DOMAIN objects) + 2
    /\ \E r \in Records \ {call.arg.i} : id_field[r] # NoId
    /\ id_field[call.arg.i] = StrNat(current_id_counter - 1)

\* C23: add raises exactly when the decimal text of the counter is longer than
\* MAX_ID_LEN; a raising add changes neither objects, last_accessed_ids, the counter nor
\* any record; once the counter is too long it stays too long, so every later add raises
\* too. With MAX_ID_LEN = 1 the adds at counters 1..9 succeed and the add at 10 raises.
AddOverflowsExactlyPastIdLength ==
    [][/\ call'.op = "add" =>
            /\ call'.raised <=> DecimalLength(current_id_counter) > MAX_ID_LEN
            /\ call'.raised =>
                    UNCHANGED <<objects, last_accessed_ids, current_id_counter, id_field>>
            /\ MAX_ID_LEN = 1 => (call'.raised <=> current_id_counter = 10)
       /\ DecimalLength(current_id_counter) > MAX_ID_LEN
              => DecimalLength(current_id_counter') > MAX_ID_LEN
       /\ MAX_ID_LEN = 1 => current_id_counter' <= 10]_vars

\* the tenth add on a table with MAX_ID_LEN = 1 has raised and the table still holds records
TenthAddRaised ==
    /\ MAX_ID_LEN = 1
    /\ call.op = "add"
    /\ call.raised
    /\ current_id_counter = 10
    /\ "9" \in DOMAIN objects
    /\ Len(last_accessed_ids) = max_count

\* C24: an add on a table that holds max_count records, with a counter whose text fits
\* MAX_ID_LEN, does not raise and returns the record it was given, carrying the new id;
\* the only key it removes is the head of last_accessed_ids, every other stored key
\* keeps its record, and the table holds max_count records, the new one among them.
EvictionIsSilent ==
    [][(/\ call'.op = "add"
        /\ Cardinality(DOMAIN objects) = max_count
        /\ DecimalLength(current_id_counter) <= MAX_ID_LEN)
       => LET key == StrNat(current_id_counter)
              head == last_accessed_ids[1]
          IN  /\ ~call'.raised
              /\ call'.ret = call'.arg
              /\ id_field'[call'.ret.i] = key
              /\ head \in DOMAIN objects
              /\ head # key
              /\ DOMAIN objects' = (DOMAIN objects \ {head}) \cup {key}
              /\ objects'[key] = call'.ret.i
              /\ \A k \in DOMAIN objects \ {head} : objects'[k] = objects[k]
              /\ Cardinality(DOMAIN objects') = max_count
              /\ last_accessed_ids' = SubSeq(last_accessed_ids, 2, max_count) \o <<key>>]_vars

\* capacity 2: after get(1) the add of the third record evicted 2, which was never deleted
ThirdAddEvictedSecond ==
    /\ max_count = 2
    /\ call.op = "add"
    /\ ~call.raised
    /\ DOMAIN objects = {"1", "3"}
    /\ last_accessed_ids = <<"1", "3">>
    /\ "2" \in Elements(touched)

(***************************************************************************)
(* A bundle under the handlers that fill it and _handle_delete_article.    *)
(***************************************************************************)
Slugs == {"a-b", "a-b-1"}

\* comments are written by the first user, or without a token
Commenters == (DOMAIN storage.users.objects \cap {"1"}) \cup {NoUser}

\* MAX_USERS and MAX_ARTICLES are 1 or the capacity of the other tables
InitBundle ==
    /\ TableInit
    /\ max_count = 1
    /\ \E max_users \in 1..BundleCapacity, max_articles \in 1..BundleCapacity :
           storage = [InMemoryStorage EXCEPT !.users.max_count = max_users,
                                             !.articles.max_count = max_articles]
    /\ ContainerInit(FALSE, MaxSessions)
    /\ LinksInit(1)
    /\ call = NoCall

NextBundle ==
    \/ \E username \in Usernames : _handle_register(username)
    \/ \E username \in Followed, current_user_id \in CurrentUsers :
            _handle_follow_user(username, current_user_id)
    \/ \E title \in Titles, current_user_id \in CurrentUsers :
            _handle_create_article(title, current_user_id)
    \/ \E slug \in Slugs, current_user_id \in CurrentUsers :
            _handle_favorite_article(slug, current_user_id)
    \/ \E slug \in Slugs, current_user_id \in Commenters :
            _handle_create_comment(slug, current_user_id)
    \/ \E slug \in Slugs, current_user_id \in CurrentUsers :
            _handle_delete_article(slug, current_user_id)

SpecBundle == InitBundle /\ [][NextBundle]_vars

\* f restricted to the keys that satisfy keep
Restrict(f, keep(_)) == [k \in {x \in DOMAIN f : keep(x)} |-> f[k]]

\* C25: after _handle_delete_article answered 204 for an article of the calling user,
\* the article's key is not in the articles table, no favorites pair has it as target and
\* no stored comment has it as article_id; the other articles, the comments of other
\* articles and the favorites pairs with other targets are what they were, in the order
\* they were in, and the follows index and the users table are unchanged.
ArticleDeletionCascades ==
    [][(call'.op = "delete_article" /\ call'.status = 204)
       => LET id == call'.article_id
              before == storage
              after == storage'
          IN  /\ id \in DOMAIN before.articles.objects
              /\ before.articles.objects[id].author_id = call'.user
              /\ id \notin DOMAIN after.articles.objects
              /\ \A l \in Elements(after.favorites) : l[2] # id
              /\ \A c \in DOMAIN after.comments.objects :
                     after.comments.objects[c].article_id # id
              /\ after.articles.objects =
                     Restrict(before.articles.objects, LAMBDA k : k # id)
              /\ after.comments.objects =
                     Restrict(before.comments.objects,
                              LAMBDA c : before.comments.objects[c].article_id # id)
              /\ after.favorites = SelectSeq(before.favorites, LAMBDA l : l[2] # id)
              /\ after.follows = before.follows
              /\ after.users = before.users]_vars

\* a deletion removed a comment and a favorite of the article and left another article,
\* a comment of it, a favorite of it and a follows pair behind
DeletedArticleAmongOthers ==
    /\ call.op = "delete_article"
    /\ call.status = 204
    /\ call.cascaded
    /\ DOMAIN storage.articles.objects # {}
    /\ DOMAIN storage.comments.objects # {}
    /\ storage.favorites # <<>>
    /\ storage.follows # <<>>

\* C26: add stores the dict it was given under the new key and returns that dict; a
\* stored key keeps its dict for as long as it is stored; get returns the stored dict
\* itself; only the caller's write changes a name. So the name read through the dict a
\* get returns is the one last written through any reference to the added record.
StoredRecordIsCallersRecord ==
    [][/\ (call'.op = "add" /\ ~call'.raised)
          => /\ call'.ret = call'.arg
             /\ objects'[StrNat(current_id_counter)] = call'.arg.i
       /\ (call'.op = "get" /\ ~call'.raised)
          => IF normalize_id(call'.arg) \in DOMAIN objects
             THEN call'.ret = PyDict(objects[normalize_id(call'.arg)])
             ELSE call'.ret = PyNone
       /\ \A k \in DOMAIN objects \cap DOMAIN objects' : objects'[k] = objects[k]
       /\ IF call'.op = "set_name"
          THEN /\ name_field'[call'.arg.i] = "modified"
               /\ \A r \in Records \ {call'.arg.i} : name_field'[r] = name_field[r]
               /\ objects' = objects
          ELSE name_field' = name_field]_vars

\* a get of key 1 returns the added record carrying the name the caller wrote, while the
\* other record, stored under key 2, keeps the name it was added with
GetShowsCallersWrite ==
    /\ call.op = "get"
    /\ call.arg = PyInt(1)
    /\ call.ret.type = "dict"
    /\ name_field[call.ret.i] = "modified"
    /\ \E r \in Records : name_field[r] = "test" /\ "2" \in DOMAIN objects /\ objects["2"] = r

\* C27: an InMemoryLinks or a _StorageContainer that a call has completed on was
\* constructed with a positive capacity, as a constructor that rejects max_count <= 0
\* and max_sessions <= 0 guarantees.
NonPositiveCapacityNeverUsed ==
    /\ call.op \in {"links.add", "links.remove", "links.is_linked", "links.targets_for_source",
                    "links.sources_for_target", "links.delete_source", "links.delete_target"}
           => links_max_count >= 1
    /\ call.op = "get_storage" => MAX_SESSIONS >= 1

\* C28: InMemoryModel(m) raises exactly when m <= 0, and then leaves the caller without
\* a new table; for m >= 1 it returns a table of capacity m with no records, an empty
\* recency order and counter 1. No table method ever runs on a capacity below 1.
ConstructionValidatesCapacity ==
    /\ [][call'.op = "InMemoryModel"
          => /\ call'.raised <=> call'.arg.i <= 0
             /\ call'.raised =>
                    UNCHANGED <<max_count, objects, last_accessed_ids, current_id_counter>>
             /\ ~call'.raised =>
                    /\ max_count' = call'.arg.i
                    /\ max_count' >= 1
                    /\ objects' = EmptyDict
                    /\ last_accessed_ids' = <<>>
                    /\ current_id_counter' = 1]_vars
    /\ [](call.op \in {"add", "get", "delete"} => max_count >= 1)

\* InMemoryModel(0) has raised while the caller holds a table with a record
ZeroCapacityRejected ==
    /\ call.op = "InMemoryModel"
    /\ call.arg = PyInt(0)
    /\ call.raised
    /\ DOMAIN objects # {}

\* C29: with isolation disabled every get_storage call, whatever its identifier,
\* returns heap[0]: the one storage ever constructed, constructed by the first call.
\* No step replaces or removes it or changes what it holds on behalf of get_storage,
\* and index_map stays empty.
SharedBundleServesEveryCaller ==
    /\ [][/\ call'.op = "get_storage"
              => /\ call'.ret = PyDict(1)
                 /\ returned' = {1}
                 /\ storages_created = 0 <=> heap = <<>>
                 /\ storage' = storage
          /\ heap # <<>> => heap' = heap
          /\ storages_created' = IF heap = <<>> /\ call'.op = "get_storage"
                                 THEN 1
                                 ELSE storages_created]_vars
    /\ [](/\ index_map = EmptyDict
          /\ Len(heap) <= 1
          /\ \A n \in 1..Len(heap) : heap[n].storage = 1)

\* a caller without a token is given the storage that earlier callers registered two
\* users in
TokenlessCallerGetsSharedBundle ==
    /\ DISABLE_ISOLATION_MODE
    /\ call.op = "get_storage"
    /\ call.arg = PyNone
    /\ call.ret = PyDict(1)
    /\ Cardinality(DOMAIN storage.users.objects) = 2
    /\ storage.follows # <<>>

\* C30: delete of a stored key returns True, removes that key and no other from objects
\* and from last_accessed_ids, keeps the other keys' records and their order, and leaves
\* the counter alone. A key that is not stored is below the counter and only the
\* counter's text is ever added, so the key stays absent and every get of it returns None.
DeleteRemovesExactlyTheKey ==
    [][/\ (call'.op = "delete" /\ ~call'.raised /\ normalize_id(call'.arg) \in DOMAIN objects)
          => LET k == normalize_id(call'.arg)
             IN  /\ call'.ret = PyBool(TRUE)
                 /\ DOMAIN objects' = DOMAIN objects \ {k}
                 /\ \A other \in DOMAIN objects' : objects'[other] = objects[other]
                 /\ k \in Elements(last_accessed_ids)
                 /\ last_accessed_ids' = SelectSeq(last_accessed_ids, LAMBDA e : e # k)
                 /\ Len(last_accessed_ids') = Len(last_accessed_ids) - 1
                 /\ current_id_counter' = current_id_counter
       /\ (call'.op = "get" /\ ~call'.raised /\ normalize_id(call'.arg) \notin DOMAIN objects)
          => call'.ret = PyNone
       /\ DOMAIN objects' \ DOMAIN objects \subseteq {StrNat(current_id_counter)}
       /\ DOMAIN objects \subseteq TextsBelow(current_id_counter)
       /\ current_id_counter' >= current_id_counter]_vars

\* capacity 3 holding 1, 2, 3: delete(2) has returned True and left 1 and 3 in order
MiddleKeyDeleted ==
    /\ max_count = 3
    /\ call.op = "delete"
    /\ call.arg = PyStr("2")
    /\ call.ret = PyBool(TRUE)
    /\ last_accessed_ids = <<"1", "3">>
    /\ DOMAIN objects = {"1", "3"}

\* C31: a get or a delete that misses or raises changes nothing. A get of a key
\* that is not stored returns None, a delete of one returns False, either of them
\* raises on a malformed identifier, and in all of these calls, as in keys(),
\* values() and items(), the records, the recency order and the counter stay as
\* they were.
MissesChangeNothing ==
    [][LET c == call'
           stored == DOMAIN objects
       IN  /\ (c.op \in {"get", "delete"} /\ Malformed(c.arg))
                => (c.raised /\ UNCHANGED <<objects, last_accessed_ids, current_id_counter>>)
           /\ (c.op \in {"get", "delete"} /\ ~Malformed(c.arg) /\ IdText(c.arg) \notin stored)
                => /\ ~c.raised
                   /\ c.ret = (IF c.op = "get" THEN PyNone ELSE PyBool(FALSE))
                   /\ UNCHANGED <<objects, last_accessed_ids, current_id_counter>>
           /\ c.op \in Views
                => (~c.raised /\ UNCHANGED <<objects, last_accessed_ids, current_id_counter>>)]_vars

\* a delete of a key that left the table earlier returned False while another
\* record was stored
DeleteMissedAmongStored ==
    /\ call.op = "delete" /\ ~call.raised /\ call.ret = PyBool(FALSE)
    /\ IdText(call.arg) \notin DOMAIN objects
    /\ objects # <<>>
    /\ current_id_counter > 2

\* C32: InMemoryLinks.remove(s, t) with valid identifiers removes the pair (s, t) if
\* it is stored and keeps every other pair in its order; if it is not stored, as on
\* an empty index or when only (t, s) is, links is unchanged; and an is_linked(s, t)
\* that follows the remove answers False.
RemoveTakesOnlyThePair ==
    [][/\ (call'.op = "links.remove" /\ ~call'.raised)
          => LET pair == LinkOf(call'.arg, call'.target)
             IN  /\ links' = SelectSeq(links, LAMBDA l : l # pair)
                 /\ pair \notin Elements(links) => links' = links
                 /\ pair \in Elements(links) => Len(links') = Len(links) - 1
                 /\ pair \notin Elements(links')
       /\ (/\ call.op = "links.remove" /\ ~call.raised
           /\ call'.op = "links.is_linked" /\ ~call'.raised
           /\ LinkOf(call'.arg, call'.target) = LinkOf(call.arg, call.target))
          => call'.ret = PyBool(FALSE)]_vars

\* C32 witness: the pair ("1", "2") was removed from an index of three pairs, and
\* the pair ("2", "1") of the other direction is still stored
RemovedOneDirection ==
    /\ call.op = "links.remove"
    /\ call.present
    /\ call.before = 3
    /\ LinkOf(call.arg, call.target) = <<"1", "2">>
    /\ Len(links) = 2
    /\ <<"2", "1">> \in Elements(links)

\* the pairs of a list that come in the same order in another
InOrderOf(kept, list) ==
    \A i, j \in 1..Len(kept) : i < j => IndexOf(list, kept[i]) < IndexOf(list, kept[j])

\* C33: delete_source(x) removes every pair whose source is normalize(x), and
\* delete_target(x) every pair whose target is, and no other pair; the pairs that
\* stay keep their order; when no pair matches, links is unchanged.
DeleteBySideTakesEveryMatch ==
    [][(/\ call'.op \in {"links.delete_source", "links.delete_target"}
        /\ ~call'.raised
        /\ \A x \in GivenIdentifiers(call') : ~Malformed(x))
       => LET side == IF call'.op = "links.delete_source" THEN 1 ELSE 2
              x == IF side = 1 THEN IdText(call'.arg) ELSE IdText(call'.target)
              matching == {l \in Elements(links) : l[side] = x}
          IN  /\ Elements(links') = Elements(links) \ matching
              /\ Len(links') = Len(links) - Cardinality(matching)
              /\ InOrderOf(links', links)
              /\ matching = {} => links' = links]_vars

\* C33 witness: delete_target took two pairs with the target "1" from three and
\* left the pair between them
DeletedTwoOfThreeByTarget ==
    /\ call.op = "links.delete_target"
    /\ ~call.raised
    /\ call.before = 3
    /\ IdText(call.target) = "1"
    /\ links = << <<"1", "2">> >>

\* the stored pairs with the given key on the given side, in storage order
PairsWith(side, key) == SelectSeq(links, LAMBDA l : l[side] = key)

\* C34: the three queries of InMemoryLinks agree with links and with each other.
\* is_linked(s, t) is True exactly when the pair (s, t) is stored; targets_for_source(s)
\* lists, in storage order, the targets of the stored pairs with source s, and
\* sources_for_target(t) the sources of those with target t; an is_linked(s, t)
\* followed by targets_for_source(s) or by sources_for_target(t) is True exactly when
\* t, or s, is in the list; and no query changes links.
QueriesAgreeWithLinks ==
    [][LET c == call'
           valid == ~c.raised /\ \A x \in GivenIdentifiers(c) : ~Malformed(x)
       IN  /\ c.op \in {"links.is_linked", "links.targets_for_source",
                         "links.sources_for_target"} => links' = links
           /\ (c.op = "links.is_linked" /\ ~c.raised)
                => c.ret = PyBool(\E n \in 1..Len(links) :
                                     links[n] = <<IdText(c.arg), IdText(c.target)>>)
           /\ (c.op = "links.targets_for_source" /\ valid)
                => LET from == PairsWith(1, IdText(c.arg))
                   IN  /\ Len(c.ret.items) = Len(from)
                       /\ \A n \in 1..Len(from) : c.ret.items[n] = from[n][2]
           /\ (c.op = "links.sources_for_target" /\ valid)
                => LET to == PairsWith(2, IdText(c.target))
                   IN  /\ Len(c.ret.items) = Len(to)
                       /\ \A n \in 1..Len(to) : c.ret.items[n] = to[n][1]
           /\ (/\ call.op = "links.is_linked" /\ ~call.raised
               /\ c.op = "links.targets_for_source" /\ valid
               /\ IdText(c.arg) = IdText(call.arg))
                => (call.ret = PyBool(TRUE)
                        <=> IdText(call.target) \in Elements(c.ret.items))
           /\ (/\ call.op = "links.is_linked" /\ ~call.raised
               /\ c.op = "links.sources_for_target" /\ valid
               /\ IdText(c.target) = IdText(call.target))
                => (call.ret = PyBool(TRUE)
                        <=> IdText(call.arg) \in Elements(c.ret.items))]_vars

\* C34 witness: with (1, 2), (2, 1) and (1, 1) stored in this order,
\* targets_for_source(1) returned ["2", "1"]
TargetsListedInStorageOrder ==
    /\ call.op = "links.targets_for_source"
    /\ ~call.raised
    /\ links = << <<"1", "2">>, <<"2", "1">>, <<"1", "1">> >>
    /\ IdText(call.arg) = "1"
    /\ call.ret.items = <<"2", "1">>

\* C35: with isolation enabled and MAX_SESSIONS >= 1 the number of live sessions
\* never decreases across a get_storage call; a session is removed only by a call
\* that creates the session of an unknown token on a container at the cap, which
\* removes exactly one session and adds one; once the number has reached
\* MAX_SESSIONS it stays there; and calls with a known token or with no token
\* remove no session.
SessionCountNeverDecreases ==
    [][MAX_SESSIONS >= 1
        => LET before == DOMAIN index_map
               after == DOMAIN index_map'
               c == call'
           IN  /\ Cardinality(after) >= Cardinality(before)
               /\ before \ after # {}
                    => /\ c.op = "get_storage" /\ IsToken(c.arg) /\ ~c.known
                       /\ Cardinality(before) = MAX_SESSIONS
                       /\ Cardinality(before \ after) = 1
                       /\ after \ before = {c.arg.s}
               /\ Cardinality(before) = MAX_SESSIONS
                    => Cardinality(after) = MAX_SESSIONS
               /\ (c.op = "get_storage" /\ (IsTokenless(c.arg) \/ c.known))
                    => (after = before /\ Len(heap') = Len(heap))]_vars

\* C35 witness: a container with MAX_SESSIONS = 2 at the cap has served an unknown
\* token: one session left, one came, and two are live
UnknownTokenServedAtCap ==
    /\ MAX_SESSIONS = 2
    /\ call.op = "get_storage" /\ IsToken(call.arg) /\ ~call.known
    /\ Cardinality(DOMAIN index_map) = 2
    /\ storages_created = 3
    /\ Cardinality(DOMAIN handed) = 2

\* C36: sessions are isolated. Two live tokens never work on the same bundle, and
\* for every token B that is live before and after a step made with another token,
\* a get_storage call or a table or index operation on that token's bundle, B's
\* bundle is the same object with the same tables, recency orders, counters and
\* indexes as before.
SessionsIsolated ==
    [][/\ \A A, B \in DOMAIN index_map : A # B => handed[A] # handed[B]
       /\ \A B \in DOMAIN index_map \cap DOMAIN index_map' :
              (call'.op \in {"session", "get_storage"} /\ call'.arg # PyStr(B))
                  => /\ handed'[B] = handed[B]
                     /\ At(heap', index_map'[B]).data = handed[B]
                     /\ bundles'[handed[B]] = bundles[handed[B]]]_vars

\* C36 witness: a request of session s0 deleted the only user of its bundle while
\* the bundle of session s1 holds two users and a follow pair
OtherSessionKeptItsData ==
    /\ call.op = "session" /\ call.arg = PyStr("s0")
    /\ {"s0", "s1"} \subseteq DOMAIN index_map
    /\ bundles[handed["s0"]].users.objects = EmptyDict
    /\ bundles[handed["s0"]].users.current_id_counter = 2
    /\ DOMAIN bundles[handed["s1"]].users.objects = {"1", "2"}
    /\ bundles[handed["s1"]].follows = << <<"1", "2">> >>

\* C39: a get_storage call with a token whose session was evicted treats the token
\* as unknown: it returns a bundle that no call returned before, with empty tables
\* and indexes and counters at 1, keeps it in the heap under the token with the
\* largest timestamp, and the token is the most recently accessed one; and no call
\* returns a bundle that was returned before and is no longer in the heap.
EvictedTokenStartsAfresh ==
    [][/\ (/\ call'.op = "get_storage"
           /\ IsToken(call'.arg)
           /\ call'.arg.s \in Elements(access_order)
           /\ call'.arg.s \notin DOMAIN index_map)
          => LET t == call'.arg.s
                 ret == call'.ret.i
             IN  /\ ~call'.known
                 /\ ret \notin returned
                 /\ bundles'[ret] = InMemoryStorage
                 /\ t \in DOMAIN index_map'
                 /\ At(heap', index_map'[t]).data = ret
                 /\ \A n \in 1..Len(heap') : heap'[n].priority <= PriorityOf(heap', t)
                 /\ access_order'[Len(access_order')] = t
       /\ (call'.op = "get_storage" /\ call'.ret.i \in returned)
          => \E n \in 1..Len(heap) : heap[n].data = call'.ret.i]_vars

\* C39 witness: with MAX_SESSIONS = 1, session s0 was created and used, evicted by
\* a call for s1, and created again: the third bundle, empty
EvictedSessionCreatedAgain ==
    /\ MAX_SESSIONS = 1
    /\ call.op = "get_storage" /\ call.arg = PyStr("s0") /\ ~call.known
    /\ access_order = <<"s1", "s0">>
    /\ storages_created = 3
    /\ handed = [t \in {"s0"} |-> 3]
    /\ bundles[3] = InMemoryStorage

\* the thread th completes, in this step, a call whose lookup found no session for
\* its token, while index_map now holds the token: another call pushed it in between
Overtaken(th) ==
    /\ threads[th].pc = "create"
    /\ threads'[th].pc = "idle"
    /\ threads[th].identifier.s \in DOMAIN index_map

SlotsOf(h, token) == {n \in 1..Len(h) : h[n].obj_id = token}

\* a call that ran alone never pushes a token that index_map holds, and as long as
\* no such push happened heap and index_map are consistent
AloneNeverPushesTwice ==
    /\ \A th \in Threads : (Overtaken(th) => threads[th].overlapped)
    /\ ~duplicate_pushed => IndexConsistent(heap, index_map)

\* C37: get_storage is not atomic: when two calls for one unknown token both look
\* the token up before either pushes, the second push leaves two heap slots with
\* the token's key and len(heap) > len(index_map), and the two callers hold
\* different bundles; calls that run one at a time never reach such a state.
InterleavedCreateLeavesTwoSlots ==
    [][/\ \A th \in Threads :
              Overtaken(th)
                  => LET token == threads[th].identifier.s
                     IN  /\ ~call'.raised
                         /\ call'.ret.i \notin returned
                         /\ Cardinality(SlotsOf(heap', token)) >= 2
                         /\ Len(heap') > Cardinality(DOMAIN index_map')
       /\ AloneNeverPushesTwice]_vars

\* C37, amended: the second call pushes too unless its _pop raises, and the two
\* callers then hold different bundles; two slots with the token's key and
\* len(heap) > len(index_map) are left unless the container is at its cap with the
\* first call's entry at the heap root, which the second call's _pop then removes.
InterleavedCreateLeavesTwoSlotsBelowCap ==
    [][/\ \A th \in Threads :
              (Overtaken(th) /\ ~(AtSessionCap(Container) /\ _pop_raises(Container)))
                  => LET token == threads[th].identifier.s
                         first_evicted == AtSessionCap(Container) /\ At(heap, 0).obj_id = token
                     IN  /\ ~call'.raised
                         /\ call'.arg = PyStr(token)
                         /\ call'.ret.i \notin returned
                         /\ \E n \in SlotsOf(heap', token) : heap'[n].data = call'.ret.i
                         /\ ~first_evicted
                              => /\ Cardinality(SlotsOf(heap', token)) >= 2
                                 /\ Len(heap') > Cardinality(DOMAIN index_map')
                         /\ (first_evicted /\ Cardinality(SlotsOf(heap, token)) = 1)
                              => Cardinality(SlotsOf(heap', token)) = 1
       /\ AloneNeverPushesTwice]_vars

\* C37 witness: with MAX_SESSIONS = 2 both threads looked s0 up and both pushed: two
\* slots with the key s0, one index entry, two bundles returned
TwoSlotsForOneToken ==
    /\ MAX_SESSIONS = 2
    /\ \A th \in Threads : threads[th].pc = "idle"
    /\ call.op = "get_storage" /\ call.arg = PyStr("s0") /\ ~call.raised
    /\ Len(heap) = 2
    /\ heap[1].obj_id = "s0" /\ heap[2].obj_id = "s0"
    /\ DOMAIN index_map = {"s0"}
    /\ returned = {1, 2}

\* the table is full: the next add evicts
Full(model) == Cardinality(DOMAIN model.objects) >= model.max_count

\* C38: capacity eviction does not cascade. When the add of create_article evicts
\* an article, the articles table loses the least recently accessed article and
\* gains the new one, and the comments table and the favorites and follows indexes
\* are unchanged, so the comments on the evicted article and the favorite pairs
\* targeting it remain; likewise, when the add of a registration evicts a user, the
\* articles and comments tables and both indexes are unchanged.
EvictionDoesNotCascade ==
    [][/\ (call'.op = "create_article" /\ call'.status = 201 /\ Full(storage.articles))
          => LET evicted == At(storage.articles.last_accessed_ids, 0)
             IN  /\ DOMAIN storage'.articles.objects =
                        (DOMAIN storage.articles.objects \ {evicted})
                            \cup {str(storage.articles.current_id_counter)}
                 /\ storage'.comments = storage.comments
                 /\ storage'.favorites = storage.favorites
                 /\ storage'.follows = storage.follows
                 /\ storage'.users.objects = storage.users.objects
                 /\ \A c_id \in DOMAIN storage.comments.objects :
                        storage.comments.objects[c_id].article_id = evicted
                            => c_id \in DOMAIN storage'.comments.objects
                 /\ \A l \in Elements(storage.favorites) :
                        l[2] = evicted => l \in Elements(storage'.favorites)
       /\ (call'.op = "register" /\ call'.status = 201 /\ Full(storage.users))
          => /\ DOMAIN storage'.users.objects =
                    (DOMAIN storage.users.objects \ {At(storage.users.last_accessed_ids, 0)})
                        \cup {str(storage.users.current_id_counter)}
             /\ storage'.articles = storage.articles
             /\ storage'.comments = storage.comments
             /\ storage'.favorites = storage.favorites
             /\ storage'.follows = storage.follows]_vars

\* C38 witness: the second article was created in a bundle of one article; the
\* first article is gone, its comment and the favorite pair targeting it are stored
EvictedArticleLeftItsComment ==
    /\ call.op = "create_article" /\ call.status = 201
    /\ DOMAIN storage.articles.objects = {"2"}
    /\ \E c_id \in DOMAIN storage.comments.objects :
           storage.comments.objects[c_id].article_id = "1"
    /\ \E l \in Elements(storage.favorites) : l[2] = "1"

\* every stored record carries its key in its "id" field
StoredIdsMatchKeys == \A k \in DOMAIN objects : id_field[objects[k]] = k

\* last_accessed_ids lists every stored key once and nothing else
OrderListsStoredKeys ==
    /\ NoDuplicates(last_accessed_ids)
    /\ Elements(last_accessed_ids) = DOMAIN objects
    /\ last_accessed_ids # <<>> => At(last_accessed_ids, 0) \in DOMAIN objects

\* C40: in every state of an InMemoryModel that add, get and delete calls reach,
\* last_accessed_ids has no duplicates and lists exactly the keys of objects, so its
\* head names a stored record, and every stored record carries the key it is stored
\* under as its id.
TableOrderAndIdsSound == OrderListsStoredKeys /\ StoredIdsMatchKeys

\* C40, amended: the order is sound in every state, and every stored record carries
\* its key as its id as long as no add is given a record that is stored at the time.
TableOrderSoundIdsOfNewRecords ==
    [][/\ OrderListsStoredKeys'
       /\ (/\ StoredIdsMatchKeys
           /\ ~(/\ call'.op = "add" /\ ~call'.raised
                 /\ \E k \in DOMAIN objects : objects[k] = call'.arg.i))
          => StoredIdsMatchKeys']_vars

\* C40 witness: a table of capacity 2 that assigned four ids holds the last two,
\* the older of them moved to the tail by a get; each record carries its key
TableReorderedAfterEviction ==
    /\ max_count = 2
    /\ current_id_counter = 5
    /\ DOMAIN objects = {"3", "4"}
    /\ last_accessed_ids = <<"4", "3">>
    /\ call.op = "get"
    /\ StoredIdsMatchKeys

====
